---------------------------- MODULE Spec2Model ----------------------------
(***************************************************************************)
(* Model of the BoM transfer dashboard's data layer: the useBomData hook   *)
(* (src/src/hooks/useBomData.ts), its Firebase subscription, the per-item  *)
(* normalization of raw records, and the mutation methods that issue       *)
(* partial remote writes.                                                  *)
(*                                                                         *)
(* Encoding of JavaScript values:                                          *)
(*   - text fields are TLA+ strings; a raw record is a function whose      *)
(*     domain is the set of fields present on the wire (absent fields are  *)
(*     not in the domain);                                                 *)
(*   - the raw Standard_Price / Total_Qty are sequences of one-character   *)
(*     strings so that parseFloat / parseInt are computed, not tabulated;  *)
(*   - a JavaScript number is [k, v]: kind "fin" with v = value * Scale,   *)
(*     or "inf", "-inf", "nan" with v = 0;                                 *)
(*   - null and undefined are the tokens Null and Undefined.               *)
(***************************************************************************)
EXTENDS Integers, Sequences, FiniteSets, TLC

(***************************************************************************)
(* Bounds of the model.                                                    *)
(***************************************************************************)
MaxStrLen == 2      \* longest generated raw numeric string
MaxCalls == 1       \* mutation-method calls per behaviour
MaxExternal == 1    \* remote changes made by other writers
MaxBaseline == 10   \* largest starting total of a decline chart
MaxMonths == 3      \* most month entries of a decline chart
MaxEdits == 2       \* edits made by the operators of one editing session

Null == "<null>"
Undefined == "<undefined>"

(***************************************************************************)
(* src/unnamed/part_001: the TransferStatus union.                         *)
(***************************************************************************)
TransferStatus ==
    {"Not Start", "In Progress", "Finished", "Temporary Usage", "Not to Transfer"}

(***************************************************************************)
(* JavaScript numbers.                                                     *)
(***************************************************************************)
RECURSIVE Pow10(_)
Pow10(n) == IF n = 0 THEN 1 ELSE 10 * Pow10(n - 1)

Scale == Pow10(MaxStrLen)

Fin(v) == [k |-> "fin", v |-> v]
NaN == [k |-> "nan", v |-> 0]
PosInf == [k |-> "inf", v |-> 0]
NegInf == [k |-> "-inf", v |-> 0]
Zero == Fin(0)

\* ToBoolean of a number: NaN, +0 and -0 are falsy.
Truthy(n) == ~(n.k = "nan" \/ (n.k = "fin" /\ n.v = 0))

\* n || 0
OrZero(n) == IF Truthy(n) THEN n ELSE Zero

Sign(n) == CASE n.k = "inf" -> 1
             [] n.k = "-inf" -> -1
             [] n.k = "fin" /\ n.v > 0 -> 1
             [] n.k = "fin" /\ n.v < 0 -> -1
             [] OTHER -> 0

\* a * b on numbers (IEEE 754: NaN is absorbing, Infinity * 0 is NaN).  The
\* finite product is exact whenever one factor is an integer.
Mul(a, b) ==
    IF a.k = "nan" \/ b.k = "nan" THEN NaN
    ELSE IF a.k = "fin" /\ b.k = "fin"
         THEN Fin((a.v \div Scale) * b.v + ((a.v % Scale) * b.v) \div Scale)
         ELSE IF Sign(a) * Sign(b) = 0 THEN NaN
              ELSE IF Sign(a) * Sign(b) > 0 THEN PosInf ELSE NegInf

(***************************************************************************)
(* parseFloat / parseInt (ECMAScript 19.2.4, 19.2.5) on a string given as  *)
(* a sequence of characters.  The generated strings contain no white       *)
(* space, no exponent letter and no "0x" prefix, so those parts of the     *)
(* grammar are not modelled.                                               *)
(***************************************************************************)
Digits == <<"0", "1", "2", "3", "4", "5", "6", "7", "8", "9">>

IsDigit(c) == \E d \in 1..10 : Digits[d] = c

DigitVal(c) == (CHOOSE d \in 1..10 : Digits[d] = c) - 1

\* number of digit characters of s starting at position i
RECURSIVE DigitRun(_, _)
DigitRun(s, i) ==
    IF i <= Len(s) /\ IsDigit(s[i]) THEN 1 + DigitRun(s, i + 1) ELSE 0

\* value of the n digits of s starting at position i
RECURSIVE DigitsValue(_, _, _)
DigitsValue(s, i, n) ==
    IF n = 0 THEN 0
    ELSE 10 * DigitsValue(s, i, n - 1) + DigitVal(s[i + n - 1])

InfinityChars == <<"I", "n", "f", "i", "n", "i", "t", "y">>

HasPrefix(s, p) == Len(s) >= Len(p) /\ SubSeq(s, 1, Len(p)) = p

SignLen(s) == IF Len(s) >= 1 /\ s[1] \in {"-", "+"} THEN 1 ELSE 0

IsNegative(s) == Len(s) >= 1 /\ s[1] = "-"

ParseFloat(s) ==
    LET body == SubSeq(s, SignLen(s) + 1, Len(s))
        n1 == DigitRun(body, 1)
        hasDot == n1 < Len(body) /\ body[n1 + 1] = "."
        n2 == IF hasDot THEN DigitRun(body, n1 + 2) ELSE 0
        mag == DigitsValue(body, 1, n1) * Scale
                 + (DigitsValue(body, n1 + 2, n2) * Scale) \div Pow10(n2)
    IN  IF HasPrefix(body, InfinityChars)
        THEN IF IsNegative(s) THEN NegInf ELSE PosInf
        ELSE IF n1 = 0 /\ n2 = 0 THEN NaN
             ELSE Fin(IF IsNegative(s) THEN 0 - mag ELSE mag)

ParseInt(s) ==
    LET body == SubSeq(s, SignLen(s) + 1, Len(s))
        n1 == DigitRun(body, 1)
        mag == DigitsValue(body, 1, n1) * Scale
    IN  IF n1 = 0 THEN NaN
        ELSE Fin(IF IsNegative(s) THEN 0 - mag ELSE mag)

\* ToString(undefined), which parseFloat / parseInt receive for an absent
\* field; it starts with no digit.
UndefinedChars == <<"u", "n", "d", "e", "f", "i", "n", "e", "d">>

\* item.<field> read as the argument of parseFloat / parseInt
NumArg(item, f) == IF f \in DOMAIN item THEN item[f] ELSE UndefinedChars

\* item.<field> || dflt  for a text field
TextOr(item, f, dflt) ==
    IF f \in DOMAIN item /\ item[f] # "" THEN item[f] ELSE dflt

(***************************************************************************)
(* The remote collection bom_summary and the raw records used as inputs.   *)
(***************************************************************************)
Keys == {"CAP-100", "DIO-400", "IND-300", "RES-200"}

\* Object.keys(data): Firebase exports children in key order.
KeyOrder == <<"CAP-100", "DIO-400", "IND-300", "RES-200">>

\* snapshot.val() of an empty location is null; it is modelled by the
\* mapping with no key.
NullData == [k \in {} |-> 0]

RecCap ==
    [Description_EN |-> "Capacitor 10uF", Kanban_Flag |-> "Kanban",
     Latest_Component_Date |-> "2025-03-10",
     Standard_Price |-> <<"1", "2", ".", "5">>, Total_Qty |-> <<"4">>]

RecRes ==
    [Description_EN |-> "Resistor 200R", Kanban_Flag |-> "",
     Standard_Price |-> <<"3">>, Total_Qty |-> <<"2">>,
     Transfer_Status |-> "In Progress", Status_UpdatedAt |-> "2025-02-01T00:00:00.000Z",
     Expected_Completion |-> "2025-06-01T00:00:00.000Z"]

RecHold ==
    [Description_EN |-> "Capacitor 10uF", Kanban_Flag |-> "Kanban",
     Standard_Price |-> <<"1", "2", ".", "5">>, Total_Qty |-> <<"4">>,
     Transfer_Status |-> "Not to Transfer", NotToTransferReason |-> "EOL"]

RecInd ==
    [Description_EN |-> "Inductor 300uH", Kanban_Flag |-> "",
     Latest_Component_Date |-> "2025-03-10",
     Standard_Price |-> <<"1", "2", ".", "5">>, Total_Qty |-> <<"4">>,
     Transfer_Status |-> "Finished", Status_UpdatedAt |-> "2025-04-02T00:00:00.000Z"]

RecDio ==
    [Description_EN |-> "Diode cap", Kanban_Flag |-> "KANBAN",
     Latest_Component_Date |-> "2025-05-01",
     Standard_Price |-> <<"3">>, Total_Qty |-> <<"2">>,
     Transfer_Status |-> "Temporary Usage"]

SampleRemotes ==
    {NullData,
     ("CAP-100" :> RecCap),
     ("CAP-100" :> RecHold) @@ ("RES-200" :> RecRes)}

(***************************************************************************)
(* getComponentImageUrl (src/src/lib/firebase.ts): the download URL, or    *)
(* null when the lookup throws.                                            *)
(***************************************************************************)
getComponentImageUrl(componentMaterial, stored) ==
    IF componentMaterial \in stored
    THEN <<"gs", componentMaterial, "png">>
    ELSE <<Null>>

(***************************************************************************)
(* The object built for one key in the onValue callback                    *)
(* (useBomData.ts lines 27-41).                                            *)
(***************************************************************************)
NormalizeItem(key, item, imageUrl) ==
    [Component_Material |-> key,
     Description_EN |-> TextOr(item, "Description_EN", ""),
     Kanban_Flag |-> TextOr(item, "Kanban_Flag", ""),
     Latest_Component_Date |-> TextOr(item, "Latest_Component_Date", ""),
     Standard_Price |-> OrZero(ParseFloat(NumArg(item, "Standard_Price"))),
     Total_Qty |-> OrZero(ParseInt(NumArg(item, "Total_Qty"))),
     Value |-> Mul(OrZero(ParseFloat(NumArg(item, "Standard_Price"))),
                   OrZero(ParseInt(NumArg(item, "Total_Qty")))),
     Transfer_Status |-> TextOr(item, "Transfer_Status", "Not Start"),
     Status_UpdatedAt |-> TextOr(item, "Status_UpdatedAt", ""),
     imageUrl |-> IF imageUrl # <<Null>> THEN imageUrl ELSE <<Undefined>>,
     Expected_Completion |-> TextOr(item, "Expected_Completion", ""),
     NotToTransferReason |-> TextOr(item, "NotToTransferReason", ""),
     Brand |-> TextOr(item, "Brand", "")]

\* The keys of data in Object.keys order.
RECURSIVE KeysInOrder(_, _)
KeysInOrder(data, i) ==
    IF i > Len(KeyOrder) THEN <<>>
    ELSE (IF KeyOrder[i] \in DOMAIN data THEN <<KeyOrder[i]>> ELSE <<>>)
             \o KeysInOrder(data, i + 1)

\* Variant of NormalizeAll that drops every key but the first.
NormalizeAllFirstKey(data, stored) ==
    LET ks == KeysInOrder(data, 1)
    IN  [i \in 1..(IF ks = <<>> THEN 0 ELSE 1) |->
            NormalizeItem(ks[i], data[ks[i]],
                          getComponentImageUrl(ks[i], stored))]

\* The array Promise.all resolves to (useBomData.ts lines 20-43); stored is
\* the set of components that have an image in storage.
NormalizeAll(data, stored) ==
    LET ks == KeysInOrder(data, 1)
    IN  [i \in 1..Len(ks) |->
            NormalizeItem(ks[i], data[ks[i]],
                          getComponentImageUrl(ks[i], stored))]

(***************************************************************************)
(* State.                                                                  *)
(***************************************************************************)
VARIABLES
    remote,      \* content of bom_summary in the remote store
    images,      \* components that have an image <key>.png in storage
    feed,        \* value events not yet handed to the onValue callback
    subscribed,  \* the listener is registered and not cancelled
    inflight,    \* snapshot callbacks suspended in Promise.all
    deliveries,  \* number of snapshots handed to the callback so far
    lastSnap,    \* data of the most recently delivered snapshot
    applied,     \* number of the snapshot whose result the store holds
    bomItems,    \* useState: bomItems
    loading,     \* useState: loading
    error,       \* useState: error
    calls,       \* log of mutation-method calls and their results
    writes,      \* log of update() calls made on the remote store
    now,         \* last reading of the wall clock
    external,    \* number of remote changes made by other writers
    unmounted,   \* the effect's cleanup function has run
    searchTerm,     \* BomTransferPage useState: searchTerm (characters)
    kanbanFilter,   \* BomTransferPage useState: kanbanFilter
    statusFilter,   \* BomTransferPage useState: statusFilter
    sortField,      \* BomTransferPage useState: sortField
    sortDirection,  \* BomTransferPage useState: sortDirection
    filteredAndSortedBomItems,  \* BomTransferPage useMemo value
    isUpdating,  \* StatusButton useState: the items whose button is updating
    baseline,    \* a decline chart's starting total
    ordered,     \* a decline chart's month entries: the event count of each
    trajectory   \* the rows of the decline chart computed last

\* state of the BomTransferPage component
pageState == <<searchTerm, kanbanFilter, statusFilter, sortField, sortDirection,
               filteredAndSortedBomItems, isUpdating>>

\* inputs and output of the dashboards' decline charts
chartState == <<baseline, ordered, trajectory>>

vars == <<remote, images, feed, subscribed, inflight, deliveries, lastSnap, applied,
          bomItems, loading, error, calls, writes, now, external, unmounted,
          pageState, chartState>>

(***************************************************************************)
(* useBomData: state after the first render and the effect that           *)
(* subscribes (useBomData.ts lines 7-15).  The listener's first value      *)
(* event carries the current content of bom_summary.  The page state is    *)
(* that of BomTransferPage's first render (part_003 lines 1214-1218); no   *)
(* decline chart has been computed.                                        *)
(***************************************************************************)
\* BomTransferPage's first render (part_003 lines 1214-1222)
InitPage ==
    /\ searchTerm = <<>>
    /\ kanbanFilter = "all"
    /\ statusFilter = "all"
    /\ sortField = "Value"
    /\ sortDirection = "desc"
    /\ filteredAndSortedBomItems = <<>>
    /\ isUpdating = {}

\* no decline chart has been computed
NoChart ==
    /\ baseline = 0
    /\ ordered = <<>>
    /\ trajectory = [chart |-> "", rows |-> <<>>]

InitStore(r, stored) ==
    /\ remote = r
    /\ images = stored
    /\ feed = <<r>>
    /\ subscribed = TRUE
    /\ inflight = {}
    /\ deliveries = 0
    /\ lastSnap = NullData
    /\ applied = 0
    /\ bomItems = <<>>
    /\ loading = TRUE
    /\ error = Null
    /\ calls = <<>>
    /\ writes = <<>>
    /\ now = 0
    /\ external = 0
    /\ unmounted = FALSE
    /\ InitPage
    /\ NoChart

Init == InitStore(("CAP-100" :> RecCap), {"CAP-100"})

(***************************************************************************)
(* onValue snapshot callback, up to its first suspension                   *)
(* (useBomData.ts lines 16-25 and 45-48).  A null snapshot is applied at   *)
(* once; otherwise one image lookup per key is started and the callback    *)
(* suspends in Promise.all.  React discards the state updates of a         *)
(* component that has been unmounted.                                      *)
(***************************************************************************)
\* Variant of DeliverSnapshot that empties the store while the lookups of a
\* new snapshot are pending.
DeliverSnapshotClearing ==
    /\ subscribed
    /\ feed # <<>>
    /\ feed' = Tail(feed)
    /\ deliveries' = deliveries + 1
    /\ lastSnap' = Head(feed)
    /\ inflight' = IF DOMAIN Head(feed) # {}
                   THEN inflight \cup {[sn |-> deliveries + 1, data |-> Head(feed),
                                        pending |-> DOMAIN Head(feed)]}
                   ELSE inflight
    /\ bomItems' = <<>>
    /\ loading' = (DOMAIN Head(feed) # {})
    /\ applied' = IF DOMAIN Head(feed) # {} THEN applied ELSE deliveries + 1
    /\ UNCHANGED <<remote, images, subscribed, error, calls, writes, now, external>>
    /\ UNCHANGED <<unmounted, pageState, chartState>>

DeliverSnapshot ==
    /\ subscribed
    /\ feed # <<>>
    /\ LET data == Head(feed)
           sn == deliveries + 1
       IN  /\ feed' = Tail(feed)
           /\ deliveries' = sn
           /\ lastSnap' = data
           /\ IF DOMAIN data # {}
              THEN /\ inflight' = inflight \cup
                          {[sn |-> sn, data |-> data,
                            pending |-> DOMAIN data]}
                   /\ UNCHANGED <<bomItems, loading, applied>>
              ELSE /\ bomItems' = IF unmounted THEN bomItems ELSE <<>>
                   /\ loading' = IF unmounted THEN loading ELSE FALSE
                   /\ applied' = IF unmounted THEN applied ELSE sn
                   /\ UNCHANGED inflight
    /\ UNCHANGED <<remote, images, subscribed, error, calls, writes, now, external>>
    /\ UNCHANGED <<unmounted, pageState, chartState>>

(***************************************************************************)
(* One image lookup of a suspended callback settles (firebase.ts lines     *)
(* 24-33).  When it is the last one, Promise.all resolves and the          *)
(* callback resumes: setBomItems(items); setLoading(false)                 *)
(* (useBomData.ts lines 44 and 48).                                        *)
(***************************************************************************)
\* Variant of ImageSettle that resumes the callback at the first lookup
\* that settles.
ImageSettleFirst(t, key) ==
    /\ t \in inflight
    /\ key \in t.pending
    /\ inflight' = inflight \ {t}
    /\ bomItems' = NormalizeAll(t.data, images)
    /\ loading' = FALSE
    /\ applied' = t.sn
    /\ UNCHANGED <<remote, images, feed, subscribed, deliveries, lastSnap, error,
                   calls, writes, now, external>>
    /\ UNCHANGED <<unmounted, pageState, chartState>>

ImageSettle(t, key) ==
    /\ t \in inflight
    /\ key \in t.pending
    /\ IF t.pending # {key}
       THEN /\ inflight' = (inflight \ {t})
                               \cup {[t EXCEPT !.pending = t.pending \ {key}]}
            /\ UNCHANGED <<bomItems, loading, applied>>
       ELSE /\ inflight' = inflight \ {t}
            /\ bomItems' = IF unmounted THEN bomItems
                                         ELSE NormalizeAll(t.data, images)
            /\ loading' = IF unmounted THEN loading ELSE FALSE
            /\ applied' = IF unmounted THEN applied ELSE t.sn
    /\ UNCHANGED <<remote, images, feed, subscribed, deliveries, lastSnap, error,
                   calls, writes, now, external>>
    /\ UNCHANGED <<unmounted, pageState, chartState>>

ResolveImage == \E t \in inflight : \E key \in Keys : ImageSettle(t, key)

(***************************************************************************)
(* The normalizer on its own: one raw record with arbitrary numeric        *)
(* strings, or with an arbitrary Transfer_Status, is delivered and         *)
(* normalized.                                                             *)
(***************************************************************************)
Alphabet == {"-", "0", "5", ".", "p"}

RECURSIVE StringsUpTo(_)
StringsUpTo(n) ==
    IF n = 0 THEN {<<>>}
    ELSE LET S == StringsUpTo(n - 1)
         IN  S \cup {Append(s, c) : s \in S, c \in Alphabet}

ExampleStrings ==
    {<<"1", "2", ".", "5">>, <<"4">>, <<"4", ".", "7">>, <<"-", "3">>,
     InfinityChars, <<"-">> \o InfinityChars}

NumStrings == StringsUpTo(MaxStrLen) \cup ExampleStrings

RawStatuses == TransferStatus \cup {"", "Done", "finished"}

\* a raw record with the given fields; "absent" leaves the field out
RawRecord(p, q, s) ==
    LET present == {"Description_EN"}
                     \cup (IF p = <<"absent">> THEN {} ELSE {"Standard_Price"})
                     \cup (IF q = <<"absent">> THEN {} ELSE {"Total_Qty"})
                     \cup (IF s = "absent" THEN {} ELSE {"Transfer_Status"})
    IN  [f \in present |->
            CASE f = "Standard_Price" -> p
              [] f = "Total_Qty" -> q
              [] f = "Transfer_Status" -> s
              [] OTHER -> "Capacitor 10uF"]

NormInputs ==
    {RawRecord(p, q, "absent") :
        p \in NumStrings \cup {<<"absent">>}, q \in NumStrings \cup {<<"absent">>}}
    \cup {RawRecord(<<"1", "2", ".", "5">>, <<"4">>, s) :
             s \in RawStatuses \cup {"absent"}}

InitNorm ==
    \E rec \in NormInputs : \E stored \in SUBSET {"CAP-100"} :
        InitStore("CAP-100" :> rec, stored)

NextNorm == DeliverSnapshot \/ ResolveImage

SpecNorm == InitNorm /\ [][NextNorm]_vars

(***************************************************************************)
(* The image lookups on their own: four records, any subset of which has   *)
(* an image in storage (the lookup of the others fails), and another       *)
(* writer that changes the collection.                                     *)
(***************************************************************************)
FullRemote ==
    ("CAP-100" :> RecCap) @@ ("DIO-400" :> RecDio) @@ ("IND-300" :> RecInd)
        @@ ("RES-200" :> RecRes)

InitImages == \E stored \in SUBSET Keys : InitStore(FullRemote, stored)

(***************************************************************************)
(* Remote writes.  A path `bom_summary/${componentMaterial}/<field>` is    *)
(* the tuple of its segments; keys of the collection contain no "/".       *)
(***************************************************************************)
Path(componentMaterial, field) == <<"bom_summary", componentMaterial, field>>

\* new Date().toISOString() at clock value t
ToISOString(t) == "2025-07-01T00:00:0" \o ToString(t) \o ".000Z"

\* Variant of StatusUpdates that forgets the timestamp.
StatusUpdatesNoTimestamp(componentMaterial, status, t) ==
    (Path(componentMaterial, "Transfer_Status") :> status)

\* Variant of StatusUpdates that also touches a field outside the whitelist.
StatusUpdatesWithDate(componentMaterial, status, t) ==
    (Path(componentMaterial, "Transfer_Status") :> status)
        @@ (Path(componentMaterial, "Status_UpdatedAt") :> ToISOString(t))
        @@ (Path(componentMaterial, "Latest_Component_Date") :> ToISOString(t))

\* updateStatus: the updates object (useBomData.ts lines 67-70)
StatusUpdates(componentMaterial, status, t) ==
    (Path(componentMaterial, "Transfer_Status") :> status)
        @@ (Path(componentMaterial, "Status_UpdatedAt") :> ToISOString(t))

\* Variant of ExpectedCompletionUpdates that stamps the status timestamp.
ExpectedCompletionUpdatesStamped(componentMaterial, dateISO) ==
    (Path(componentMaterial, "Expected_Completion")
        :> (IF dateISO \in {Null, ""} THEN Null ELSE dateISO))
        @@ (Path(componentMaterial, "Status_UpdatedAt") :> ToISOString(0))

\* updateExpectedCompletion: the updates object (lines 82-84); dateISO || null
ExpectedCompletionUpdates(componentMaterial, dateISO) ==
    (Path(componentMaterial, "Expected_Completion")
        :> (IF dateISO \in {Null, ""} THEN Null ELSE dateISO))

\* Variant of NotToTransferUpdates that writes the reason alone.
NotToTransferUpdatesReasonOnly(componentMaterial, reason, brand) ==
    (Path(componentMaterial, "NotToTransferReason") :> reason)

\* updateNotToTransferDetails: the updates object (lines 100-103)
NotToTransferUpdates(componentMaterial, reason, brand) ==
    (Path(componentMaterial, "NotToTransferReason") :> reason)
        @@ (Path(componentMaterial, "Brand") :> brand)

\* Variant of ApplyUpdates that replaces each written record by the written
\* fields.
ApplyUpdatesReplacing(r, updates) ==
    LET ids == {p[2] : p \in DOMAIN updates}
        set(k) == {p[3] : p \in {q \in DOMAIN updates : q[2] = k /\ updates[q] # Null}}
    IN  [k \in {j \in DOMAIN r \cup ids : j \in ids => set(j) # {}} |->
            IF k \in ids THEN [f \in set(k) |-> updates[Path(k, f)]] ELSE r[k]]

\* update(ref(database), updates) as the remote store applies it: each path
\* sets one field of one record, null removes the field, a record is
\* created when its path is new and disappears with its last field.
ApplyUpdates(r, updates) ==
    LET ids == {p[2] : p \in DOMAIN updates}
        old(k) == IF k \in DOMAIN r THEN r[k] ELSE NullData
        set(k) == {p[3] : p \in {q \in DOMAIN updates : q[2] = k /\ updates[q] # Null}}
        del(k) == {p[3] : p \in {q \in DOMAIN updates : q[2] = k /\ updates[q] = Null}}
        new(k) == [f \in (DOMAIN old(k) \cup set(k)) \ del(k) |->
                      IF f \in set(k) THEN updates[Path(k, f)] ELSE old(k)[f]]
    IN  [k \in {j \in DOMAIN r \cup ids : DOMAIN new(j) # {}} |-> new(k)]

(***************************************************************************)
(* What the dashboard renders (Index.tsx lines 274-296): nothing but a     *)
(* skeleton while loading, nothing but the alert while error is set.       *)
(***************************************************************************)
Screen ==
    IF loading THEN "skeleton"
    ELSE IF error # Null THEN "alert" ELSE "dashboard"

Rendered(id) ==
    /\ ~unmounted
    /\ ~loading
    /\ error = Null
    /\ \E i \in DOMAIN bomItems : bomItems[i].Component_Material = id

RenderedWithStatus(id, status) ==
    /\ ~unmounted
    /\ ~loading
    /\ error = Null
    /\ \E i \in DOMAIN bomItems :
          /\ bomItems[i].Component_Material = id
          /\ bomItems[i].Transfer_Status = status

\* new Date(): the wall clock has advanced since its last reading
Clock == now + 1

\* a mutation method runs up to `await update(...)`: one update() call; limit
\* bounds the number of calls of a behaviour
IssueWriteWithin(limit, method, id, args, updates) ==
    /\ Len(calls) < limit
    /\ writes' = Append(writes, [updates |-> updates, by |-> Len(calls) + 1,
                                 state |-> "pending"])
    /\ calls' = Append(calls, [method |-> method, id |-> id, args |-> args,
                               at |-> Clock, result |-> "pending"])
    /\ now' = Clock
    /\ UNCHANGED <<remote, images, feed, subscribed, inflight, deliveries,
                   lastSnap, applied, bomItems, loading, error, external>>
    /\ UNCHANGED <<unmounted, chartState>>

IssueWrite(method, id, args, updates) ==
    /\ IssueWriteWithin(MaxCalls, method, id, args, updates)
    /\ UNCHANGED pageState

(***************************************************************************)
(* updateStatus (useBomData.ts lines 65-78), called from a StatusButton    *)
(* of a rendered item.                                                     *)
(***************************************************************************)
\* the buttons of a StatusButton (StatusButton.tsx line 57)
statuses == {"Not Start", "In Progress", "Finished", "Not to Transfer"}

\* the statuses a click on a button of an idle StatusButton asks for:
\* handleStatusClick returns at once for the current status (lines 43-47)
ClickTargets(currentStatus) == {status \in statuses : status # currentStatus}

\* the buttons clicked in the model
StatusArgs == {"Finished", "Not to Transfer"}

\* Variant of updateStatus that patches the local collection optimistically.
updateStatusOptimistic(componentMaterial, status) ==
    /\ Rendered(componentMaterial)
    /\ Len(calls) < MaxCalls
    /\ writes' = Append(writes,
                        [updates |-> StatusUpdates(componentMaterial, status, Clock),
                         by |-> Len(calls) + 1, state |-> "pending"])
    /\ calls' = Append(calls, [method |-> "updateStatus", id |-> componentMaterial,
                               args |-> <<status>>, at |-> Clock,
                               result |-> "pending"])
    /\ now' = Clock
    /\ bomItems' = [i \in DOMAIN bomItems |->
                       IF bomItems[i].Component_Material = componentMaterial
                       THEN [bomItems[i] EXCEPT !.Transfer_Status = status]
                       ELSE bomItems[i]]
    /\ UNCHANGED <<remote, images, feed, subscribed, inflight, deliveries,
                   lastSnap, applied, loading, error, external>>
    /\ UNCHANGED <<unmounted, pageState, chartState>>

updateStatus(componentMaterial, status) ==
    /\ Rendered(componentMaterial)
    /\ IssueWrite("updateStatus", componentMaterial, <<status>>,
                  StatusUpdates(componentMaterial, status, Clock))

(***************************************************************************)
(* updateExpectedCompletion (useBomData.ts lines 80-92), called from the   *)
(* date selector of an In Progress item (Index.tsx lines 563-568).         *)
(***************************************************************************)
DateArgs == {Null, "2025-09-01T00:00:00.000Z"}

updateExpectedCompletion(componentMaterial, dateISO) ==
    /\ RenderedWithStatus(componentMaterial, "In Progress")
    /\ IssueWrite("updateExpectedCompletion", componentMaterial, <<dateISO>>,
                  ExpectedCompletionUpdates(componentMaterial, dateISO))

(***************************************************************************)
(* updateNotToTransferDetails (useBomData.ts lines 94-111), called from    *)
(* the Reason / Brand inputs of a Not to Transfer item (Index.tsx lines    *)
(* 741-768).                                                               *)
(***************************************************************************)
ReasonArgs == {"Local supplier"}

BrandArgs == {"", "ACME"}

updateNotToTransferDetails(componentMaterial, reason, brand) ==
    /\ RenderedWithStatus(componentMaterial, "Not to Transfer")
    /\ IssueWrite("updateNotToTransferDetails", componentMaterial,
                  <<reason, brand>>,
                  NotToTransferUpdates(componentMaterial, reason, brand))

(***************************************************************************)
(* updatePlannedStart as the planned-start selector of a Not Start item    *)
(* calls it (Index.tsx lines 135-143 and 671-676).  The object returned by *)
(* useBomData (useBomData.ts lines 114-121) has no such member, so the     *)
(* destructured value is undefined and the call throws a TypeError inside  *)
(* the async onChange handler, whose promise nobody observes.              *)
(***************************************************************************)
PlannedStartArgs == {"2025-09-01T00:00:00.000Z"}

updatePlannedStart(componentMaterial, dateISO) ==
    /\ RenderedWithStatus(componentMaterial, "Not Start")
    /\ Len(calls) < MaxCalls
    /\ calls' = Append(calls, [method |-> "updatePlannedStart",
                               id |-> componentMaterial, args |-> <<dateISO>>,
                               at |-> now, result |-> "TypeError"])
    /\ UNCHANGED <<remote, images, feed, subscribed, inflight, deliveries, lastSnap,
                   applied, bomItems, loading, error, writes, now, external>>
    /\ UNCHANGED <<unmounted, pageState, chartState>>

(***************************************************************************)
(* The remote store settles the oldest pending update() call: it applies   *)
(* the write and the promise resolves, or it rejects.  The awaiting method *)
(* then returns true, or catches and returns false.  A write that changes  *)
(* bom_summary raises a value event for the listener.                      *)
(***************************************************************************)
PendingWrites == {w \in DOMAIN writes : writes[w].state = "pending"}

OldestPending == CHOOSE w \in PendingWrites : \A v \in PendingWrites : w <= v

Notify(r) == IF subscribed /\ r # remote THEN Append(feed, r) ELSE feed

SettleWrite(ok) ==
    /\ PendingWrites # {}
    /\ LET w == OldestPending
           r == IF ok THEN ApplyUpdates(remote, writes[w].updates) ELSE remote
       IN  /\ remote' = r
           /\ feed' = Notify(r)
           /\ writes' = [writes EXCEPT ![w].state =
                            IF ok THEN "acked" ELSE "rejected"]
           /\ calls' = [calls EXCEPT ![writes[w].by].result =
                            IF ok THEN "true" ELSE "false"]
    /\ UNCHANGED <<images, subscribed, inflight, deliveries, lastSnap, applied,
                   bomItems, loading, error, now, external>>
    /\ UNCHANGED <<unmounted, pageState, chartState>>

(***************************************************************************)
(* Another writer changes bom_summary; the listener gets a value event.    *)
(***************************************************************************)
RemoteChange(r) ==
    /\ external < MaxExternal
    /\ r # remote
    /\ remote' = r
    /\ feed' = Notify(r)
    /\ external' = external + 1
    /\ UNCHANGED <<images, subscribed, inflight, deliveries, lastSnap, applied,
                   bomItems, loading, error, calls, writes, now>>
    /\ UNCHANGED <<unmounted, pageState, chartState>>

(***************************************************************************)
(* onValue error callback (useBomData.ts lines 55-59).  Firebase calls it  *)
(* when the listener is cancelled, after which no value event is raised.   *)
(***************************************************************************)
\* Variant of SubscriptionError that leaves the loading flag as it is.
SubscriptionErrorKeepsLoading ==
    /\ subscribed
    /\ subscribed' = FALSE
    /\ feed' = <<>>
    /\ error' = "Failed to fetch data from Firebase"
    /\ UNCHANGED <<remote, images, inflight, deliveries, lastSnap, applied,
                   bomItems, loading, calls, writes, now, external>>
    /\ UNCHANGED <<unmounted, pageState, chartState>>

SubscriptionError ==
    /\ subscribed
    /\ subscribed' = FALSE
    /\ feed' = <<>>
    /\ error' = IF unmounted THEN error
                              ELSE "Failed to fetch data from Firebase"
    /\ loading' = IF unmounted THEN loading ELSE FALSE
    /\ UNCHANGED <<remote, images, inflight, deliveries, lastSnap, applied,
                   bomItems, calls, writes, now, external>>
    /\ UNCHANGED <<unmounted, pageState, chartState>>

(***************************************************************************)
(* The effect's cleanup, run when the consuming component unmounts         *)
(* (useBomData.ts line 62): off(bomRef, 'value', unsubscribe).  onValue    *)
(* was given the async snapshot callback and returned the unsubscribe      *)
(* function (lines 13-15); off() removes the listeners that were           *)
(* registered with the callback it is given.                               *)
(***************************************************************************)
SnapshotCallback == "onValue callback"

Unsubscribe == "unsubscribe"

off(registered, callback) == registered \ {callback}

Cleanup ==
    /\ ~unmounted
    /\ unmounted' = TRUE
    /\ LET registered == IF subscribed THEN {SnapshotCallback} ELSE {}
       IN  /\ subscribed' = (off(registered, Unsubscribe) # {})
           /\ feed' = IF off(registered, Unsubscribe) # {} THEN feed ELSE <<>>
    /\ UNCHANGED <<remote, images, inflight, deliveries, lastSnap, applied,
                   bomItems, loading, error, calls, writes, now, external>>
    /\ UNCHANGED <<pageState, chartState>>

Next ==
    \/ DeliverSnapshot
    \/ ResolveImage
    \/ \E id \in Keys : \E status \in StatusArgs : updateStatus(id, status)
    \/ \E id \in Keys : \E d \in DateArgs : updateExpectedCompletion(id, d)
    \/ \E id \in Keys : \E reason \in ReasonArgs : \E brand \in BrandArgs :
          updateNotToTransferDetails(id, reason, brand)
    \/ \E id \in Keys : \E d \in PlannedStartArgs : updatePlannedStart(id, d)
    \/ \E ok \in BOOLEAN : SettleWrite(ok)
    \/ \E r \in SampleRemotes : RemoteChange(r)
    \/ SubscriptionError

Spec == Init /\ [][Next]_vars

NextImages ==
    \/ DeliverSnapshot
    \/ ResolveImage
    \/ \E r \in SampleRemotes : RemoteChange(r)

SpecImages == InitImages /\ [][NextImages]_vars

\* the hook over the whole life of its component, unmount included
NextScope == Next \/ Cleanup

SpecScope == Init /\ [][NextScope]_vars

(***************************************************************************)
(* Text as characters.  Text fields are strings; the operations that look  *)
(* inside a text (toLowerCase, includes) work on its characters, listed    *)
(* here for the texts of the sample records.                               *)
(***************************************************************************)
Characters(text) ==
    CASE text = "CAP-100" -> <<"C", "A", "P", "-", "1", "0", "0">>
      [] text = "DIO-400" -> <<"D", "I", "O", "-", "4", "0", "0">>
      [] text = "IND-300" -> <<"I", "N", "D", "-", "3", "0", "0">>
      [] text = "RES-200" -> <<"R", "E", "S", "-", "2", "0", "0">>
      [] text = "Capacitor 10uF" ->
            <<"C", "a", "p", "a", "c", "i", "t", "o", "r", " ", "1", "0", "u", "F">>
      [] text = "Diode cap" -> <<"D", "i", "o", "d", "e", " ", "c", "a", "p">>
      [] text = "Inductor 300uH" ->
            <<"I", "n", "d", "u", "c", "t", "o", "r", " ", "3", "0", "0", "u", "H">>
      [] text = "Resistor 200R" ->
            <<"R", "e", "s", "i", "s", "t", "o", "r", " ", "2", "0", "0", "R">>
      [] text = "2025-03-10" -> <<"2", "0", "2", "5", "-", "0", "3", "-", "1", "0">>
      [] text = "2025-05-01" -> <<"2", "0", "2", "5", "-", "0", "5", "-", "0", "1">>
      [] text = "2024-12-15" -> <<"2", "0", "2", "4", "-", "1", "2", "-", "1", "5">>
      [] text = "2025-02-30" -> <<"2", "0", "2", "5", "-", "0", "2", "-", "3", "0">>
      [] text = "2025-02-01T00:00:00.000Z" ->
            <<"2", "0", "2", "5", "-", "0", "2", "-", "0", "1", "T", "0", "0", ":",
              "0", "0", ":", "0", "0", ".", "0", "0", "0", "Z">>
      [] text = "2025-04-02T00:00:00.000Z" ->
            <<"2", "0", "2", "5", "-", "0", "4", "-", "0", "2", "T", "0", "0", ":",
              "0", "0", ":", "0", "0", ".", "0", "0", "0", "Z">>
      [] text = "2025-06-01T00:00:00.000Z" ->
            <<"2", "0", "2", "5", "-", "0", "6", "-", "0", "1", "T", "0", "0", ":",
              "0", "0", ":", "0", "0", ".", "0", "0", "0", "Z">>
      [] text = "2025-09-01T00:00:00.000Z" ->
            <<"2", "0", "2", "5", "-", "0", "9", "-", "0", "1", "T", "0", "0", ":",
              "0", "0", ":", "0", "0", ".", "0", "0", "0", "Z">>
      [] text = "Kanban" -> <<"K", "a", "n", "b", "a", "n">>
      [] text = "KANBAN" -> <<"K", "A", "N", "B", "A", "N">>
      [] text = "kanban" -> <<"k", "a", "n", "b", "a", "n">>
      [] text = "Not Start" -> <<"N", "o", "t", " ", "S", "t", "a", "r", "t">>
      [] text = "not started" ->
            <<"n", "o", "t", " ", "s", "t", "a", "r", "t", "e", "d">>
      [] text = "In Progress" ->
            <<"I", "n", " ", "P", "r", "o", "g", "r", "e", "s", "s">>
      [] text = "in progress" ->
            <<"i", "n", " ", "p", "r", "o", "g", "r", "e", "s", "s">>
      [] text = "Finished" -> <<"F", "i", "n", "i", "s", "h", "e", "d">>
      [] text = "finished" -> <<"f", "i", "n", "i", "s", "h", "e", "d">>
      [] text = "completed" -> <<"c", "o", "m", "p", "l", "e", "t", "e", "d">>
      [] text = "Temporary Usage" ->
            <<"T", "e", "m", "p", "o", "r", "a", "r", "y", " ", "U", "s", "a", "g", "e">>
      [] text = "Not to Transfer" ->
            <<"N", "o", "t", " ", "t", "o", " ", "T", "r", "a", "n", "s", "f", "e", "r">>
      [] text = "not to transfer" ->
            <<"n", "o", "t", " ", "t", "o", " ", "t", "r", "a", "n", "s", "f", "e", "r">>
      [] text = "not-transfer" ->
            <<"n", "o", "t", "-", "t", "r", "a", "n", "s", "f", "e", "r">>
      [] text = "no transfer" ->
            <<"n", "o", " ", "t", "r", "a", "n", "s", "f", "e", "r">>
      [] OTHER -> <<>>

UpperCase ==
    <<"A", "B", "C", "D", "E", "F", "G", "H", "I", "J", "K", "L", "M",
      "N", "O", "P", "Q", "R", "S", "T", "U", "V", "W", "X", "Y", "Z">>

LowerCase ==
    <<"a", "b", "c", "d", "e", "f", "g", "h", "i", "j", "k", "l", "m",
      "n", "o", "p", "q", "r", "s", "t", "u", "v", "w", "x", "y", "z">>

\* the lower-case letter of each upper-case letter
LowerOf ==
    [c \in {UpperCase[u] : u \in DOMAIN UpperCase} |->
        LowerCase[CHOOSE u \in DOMAIN UpperCase : UpperCase[u] = c]]

\* String.prototype.toLowerCase on the characters of a text
toLowerCase(chars) ==
    [i \in 1..Len(chars) |->
        IF chars[i] \in DOMAIN LowerOf THEN LowerOf[chars[i]] ELSE chars[i]]

\* String.prototype.includes
includes(chars, search) ==
    \E i \in 0..(Len(chars) - Len(search)) :
        SubSeq(chars, i + 1, i + Len(search)) = search

(***************************************************************************)
(* BomTransferPage: the filtered and sorted table (part_003 lines          *)
(* 1221-1279; useFilteredAndSortedBom in useBomData.ts lines 131-183 has   *)
(* the same search, kanban and sort code).                                 *)
(***************************************************************************)
\* item.Transfer_Status || 'Not Start'
StatusOf(item) ==
    IF item.Transfer_Status = "" THEN "Not Start" ELSE item.Transfer_Status

\* Variant of MatchesSearch that compares the texts as they are stored.
MatchesSearchCaseSensitive(item, term) ==
    \/ includes(Characters(item.Component_Material), term)
    \/ includes(Characters(item.Description_EN), term)

\* the predicate of the search filter (part_003 lines 1226-1231)
MatchesSearch(item, term) ==
    \/ includes(toLowerCase(Characters(item.Component_Material)), term)
    \/ includes(toLowerCase(Characters(item.Description_EN)), term)

IsKanban(item) ==
    toLowerCase(Characters(item.Kanban_Flag)) = Characters("kanban")

\* the filters of the memo (part_003 lines 1222-1244)
FilterBom(items, search, kanban, status) ==
    LET bySearch ==
            IF search # <<>>
            THEN SelectSeq(items,
                           LAMBDA item : MatchesSearch(item, toLowerCase(search)))
            ELSE items
        byKanban ==
            IF kanban = "kanban"
            THEN SelectSeq(bySearch, IsKanban)
            ELSE IF kanban = "non-kanban"
                 THEN SelectSeq(bySearch, LAMBDA item : ~IsKanban(item))
                 ELSE bySearch
    IN  IF status # "all"
        THEN SelectSeq(byKanban, LAMBDA item : StatusOf(item) = status)
        ELSE byKanban

\* new Date(text).getTime(), in days since the epoch: NaN for a text that
\* is no date
getTime(text) ==
    CASE text = "2025-03-10" -> Fin(20157 * Scale)
      [] text = "2025-05-01" -> Fin(20209 * Scale)
      [] OTHER -> NaN

\* a < b on numbers: false when either side is NaN
LessThan(a, b) ==
    /\ a.k # "nan"
    /\ b.k # "nan"
    /\ \/ a.k = "-inf" /\ b.k # "-inf"
       \/ a.k # "inf" /\ b.k = "inf"
       \/ a.k = "fin" /\ b.k = "fin" /\ a.v < b.v

SortValue(item, field) ==
    CASE field = "Value" -> item.Value
      [] field = "Standard_Price" -> item.Standard_Price
      [] field = "Total_Qty" -> item.Total_Qty
      [] field = "Latest_Component_Date" -> getTime(item.Latest_Component_Date)

\* the comparator given to sort (part_003 lines 1247-1276)
CompareFn(a, b, field, direction) ==
    LET aValue == SortValue(a, field)
        bValue == SortValue(b, field)
    IN  IF direction = "asc"
        THEN IF LessThan(aValue, bValue) THEN -1
             ELSE IF LessThan(bValue, aValue) THEN 1 ELSE 0
        ELSE IF LessThan(bValue, aValue) THEN -1
             ELSE IF LessThan(aValue, bValue) THEN 1 ELSE 0

(***************************************************************************)
(* Array.prototype.sort (ECMAScript 23.1.3.30).  With a consistent         *)
(* comparator the sort is stable, so its result is the one computed by     *)
(* insertion; with a comparator that is not consistent for the elements    *)
(* the order of the result is implementation-defined.                      *)
(***************************************************************************)
IsConsistentComparator(items, field, direction) ==
    LET cmp(i, j) == CompareFn(items[i], items[j], field, direction)
    IN  \A i, j, k \in DOMAIN items :
            /\ cmp(i, i) = 0
            /\ cmp(i, j) = 0 - cmp(j, i)
            /\ (cmp(i, j) = 0 /\ cmp(j, k) = 0) => cmp(i, k) = 0
            /\ (cmp(i, j) < 0 /\ cmp(j, k) < 0) => cmp(i, k) < 0

\* x placed behind the elements of the sorted sequence it does not precede
InsertSorted(sorted, x, field, direction) ==
    LET before == {i \in DOMAIN sorted :
                      \A j \in 1..i : CompareFn(x, sorted[j], field, direction) >= 0}
        n == Cardinality(before)
    IN  SubSeq(sorted, 1, n) \o <<x>> \o SubSeq(sorted, n + 1, Len(sorted))

RECURSIVE StableSort(_, _, _)
StableSort(items, field, direction) ==
    IF items = <<>> THEN <<>>
    ELSE InsertSorted(StableSort(SubSeq(items, 1, Len(items) - 1), field, direction),
                      items[Len(items)], field, direction)

Reorderings(items) ==
    {[i \in DOMAIN items |-> items[perm[i]]] : perm \in Permutations(DOMAIN items)}

SortOutcomes(items, field, direction) ==
    IF IsConsistentComparator(items, field, direction)
    THEN {StableSort(items, field, direction)}
    ELSE Reorderings(items)

(***************************************************************************)
(* A render of BomTransferPage after one of its state setters: the memo    *)
(* is recomputed.  When no filter is active `filtered` is the bomItems     *)
(* array itself and filtered.sort reorders it in place.                    *)
(***************************************************************************)
Render(search, kanban, status, field, direction) ==
    /\ ~loading
    /\ error = Null
    /\ <<search, kanban, status, field, direction>>
          # <<searchTerm, kanbanFilter, statusFilter, sortField, sortDirection>>
    /\ \E sorted \in SortOutcomes(FilterBom(bomItems, search, kanban, status),
                                  field, direction) :
          /\ filteredAndSortedBomItems' = sorted
          /\ bomItems' = IF search = <<>> /\ kanban = "all" /\ status = "all"
                         THEN sorted ELSE bomItems
    /\ searchTerm' = search
    /\ kanbanFilter' = kanban
    /\ statusFilter' = status
    /\ sortField' = field
    /\ sortDirection' = direction
    /\ UNCHANGED <<remote, images, feed, subscribed, inflight, deliveries,
                   lastSnap, applied, loading, error, calls, writes, now,
                   external, unmounted, isUpdating, chartState>>

SearchArgs == {<<>>, <<"c", "a", "p">>, <<"C", "A", "P">>}

\* typing in the search box (part_002 lines 36-41)
setSearchTerm(term) ==
    Render(term, kanbanFilter, statusFilter, sortField, sortDirection)

\* the kanban select (part_002 lines 45-54)
setKanbanFilter(filter) ==
    Render(searchTerm, filter, statusFilter, sortField, sortDirection)

\* the status select (part_002 lines 56-67)
StatusFilterArgs == {"all", "Finished"}

setStatusFilter(filter) ==
    Render(searchTerm, kanbanFilter, filter, sortField, sortDirection)

SortFields == {"Value", "Standard_Price", "Total_Qty", "Latest_Component_Date"}

\* a click on a column header (part_003 lines 1281-1288)
handleSort(field) ==
    IF sortField = field
    THEN Render(searchTerm, kanbanFilter, statusFilter, field,
                IF sortDirection = "asc" THEN "desc" ELSE "asc")
    ELSE Render(searchTerm, kanbanFilter, statusFilter, field, "desc")

\* the reset button (part_003 lines 1290-1296)
handleReset == Render(<<>>, "all", "all", "Value", "desc")

\* the snapshots the page is given
ViewSnapshots ==
    {NullData,
     ("CAP-100" :> RecCap),
     ("CAP-100" :> RecCap) @@ ("RES-200" :> RecRes),
     ("DIO-400" :> RecDio) @@ ("RES-200" :> RecRes),
     ("CAP-100" :> RecCap) @@ ("DIO-400" :> RecDio) @@ ("IND-300" :> RecInd)
        @@ ("RES-200" :> RecRes)}

\* the page after the first snapshot has been normalized and rendered
InitView ==
    \E data \in ViewSnapshots :
      \E sorted \in SortOutcomes(NormalizeAll(data, {}), "Value", "desc") :
        /\ remote = data
        /\ images = {}
        /\ feed = <<>>
        /\ subscribed = TRUE
        /\ inflight = {}
        /\ deliveries = 1
        /\ lastSnap = data
        /\ applied = 1
        /\ bomItems = sorted
        /\ loading = FALSE
        /\ error = Null
        /\ calls = <<>>
        /\ writes = <<>>
        /\ now = 0
        /\ external = 0
        /\ unmounted = FALSE
        /\ searchTerm = <<>>
        /\ kanbanFilter = "all"
        /\ statusFilter = "all"
        /\ sortField = "Value"
        /\ sortDirection = "desc"
        /\ filteredAndSortedBomItems = sorted
        /\ isUpdating = {}
        /\ NoChart

NextView ==
    \/ \E term \in SearchArgs : setSearchTerm(term)
    \/ \E filter \in {"all", "kanban", "non-kanban"} : setKanbanFilter(filter)
    \/ \E filter \in StatusFilterArgs : setStatusFilter(filter)
    \/ \E field \in SortFields : handleSort(field)
    \/ handleReset

SpecView == InitView /\ [][NextView]_vars

(***************************************************************************)
(* useFilteredAndSortedBom (useBomData.ts lines 124-185) in a component    *)
(* that has rendered once with a loaded store: the list was computed by    *)
(* the initializer given to useState in the first call.  In a later render *)
(* useState returns the state it holds and does not run the initializer.   *)
(***************************************************************************)
useFilteredAndSortedBom(search, kanban, field, direction) ==
    /\ <<search, kanban, field, direction>>
          # <<searchTerm, kanbanFilter, sortField, sortDirection>>
    /\ searchTerm' = search
    /\ kanbanFilter' = kanban
    /\ sortField' = field
    /\ sortDirection' = direction
    /\ filteredAndSortedBomItems' = filteredAndSortedBomItems
    /\ UNCHANGED <<remote, images, feed, subscribed, inflight, deliveries,
                   lastSnap, applied, bomItems, loading, error, calls, writes,
                   now, external, unmounted, statusFilter, isUpdating, chartState>>

NextHook ==
    \/ \E term \in SearchArgs : \E kanban \in {"all", "kanban", "non-kanban"} :
          \E field \in SortFields : \E direction \in {"asc", "desc"} :
              useFilteredAndSortedBom(term, kanban, field, direction)
    \/ DeliverSnapshot
    \/ ResolveImage
    \/ \E r \in SampleRemotes : RemoteChange(r)

SpecHook == InitView /\ [][NextHook]_vars

(***************************************************************************)
(* The dashboards' status buckets (Index.tsx lines 146-164, part_003       *)
(* lines 173-191) and the parts baseline (part_003 lines 228-229).         *)
(***************************************************************************)
completedItems == SelectSeq(bomItems, LAMBDA item : StatusOf(item) = "Finished")

planItems == SelectSeq(bomItems, LAMBDA item : StatusOf(item) = "In Progress")

currentBomItems == SelectSeq(bomItems, LAMBDA item : StatusOf(item) = "Not Start")

remainingItems ==
    SelectSeq(bomItems, LAMBDA item : StatusOf(item) = "Not to Transfer")

totalPartsBaseline ==
    Len(remainingItems) + Len(currentBomItems) + Len(planItems) + Len(completedItems)

(***************************************************************************)
(* SummaryCards (src/src/components/SummaryCards.tsx), rendered by         *)
(* BomTransferPage with the store's items.  Sums are kept as multiples of  *)
(* 1/Scale.                                                                *)
(***************************************************************************)
\* num: a finite number as it is, anything else as 0 (lines 17-21)
num(v) == IF v.k = "fin" THEN v.v ELSE 0

STATUSES == {"Not Start", "In Progress", "Finished", "Not to Transfer"}

\* getStatus (lines 54-62)
getStatus(item) ==
    LET norm == toLowerCase(Characters(item.Transfer_Status))
    IN  IF norm = Characters("not started") THEN "Not Start"
        ELSE IF norm = Characters("in progress") THEN "In Progress"
        ELSE IF norm \in {Characters("finished"), Characters("completed")}
             THEN "Finished"
        ELSE IF norm \in {Characters("not to transfer"),
                          Characters("not-transfer"), Characters("no transfer")}
             THEN "Not to Transfer"
        ELSE "Not Start"

\* items.reduce((sum, item) => sum + num(item.<field>), 0)
RECURSIVE SumNum(_, _)
SumNum(items, field) ==
    IF items = <<>> THEN 0
    ELSE SumNum(SubSeq(items, 1, Len(items) - 1), field)
            + num(items[Len(items)][field])

totalBomValue == SumNum(bomItems, "Value")

totalQty == SumNum(bomItems, "Total_Qty")

totalParts == Len(bomItems)

\* statusTotals after the loop over bomItems (lines 64-73)
statusTotals ==
    [s \in STATUSES |->
        LET items == SelectSeq(bomItems, LAMBDA item : getStatus(item) = s)
        IN  [value |-> SumNum(items, "Value"), count |-> Len(items),
             qty |-> SumNum(items, "Total_Qty")]]

\* what the card of a status shows: statusTotals[status]?.<total> || 0
\* (lines 124-160)
CardTotal(status, total) ==
    IF status \in DOMAIN statusTotals THEN statusTotals[status][total] ELSE 0

(***************************************************************************)
(* The dashboards' decline charts.  Each walks the month entries in        *)
(* ascending order, carrying the remaining total; an entry is given here   *)
(* by its event count and a row's month by the entry's position.           *)
(***************************************************************************)
Max(a, b) == IF a >= b THEN a ELSE b

Min(a, b) == IF a <= b THEN a ELSE b

\* Variant of completedDecline that does not clamp at zero.
RECURSIVE completedDeclineUnclamped(_, _)
completedDeclineUnclamped(entries, total) ==
    IF entries = <<>> THEN <<>>
    ELSE LET rows == completedDeclineUnclamped(SubSeq(entries, 1, Len(entries) - 1),
                                               total)
             remaining == IF rows = <<>> THEN total
                          ELSE rows[Len(rows)].remainingAfter
         IN  Append(rows, [month |-> Len(entries), remaining |-> remaining,
                           remainingAfter |-> remaining - entries[Len(entries)]])

\* completedDecline (part_003 lines 321-331)
RECURSIVE completedDecline(_, _)
completedDecline(entries, total) ==
    IF entries = <<>> THEN <<>>
    ELSE LET rows == completedDecline(SubSeq(entries, 1, Len(entries) - 1), total)
             remaining == IF rows = <<>> THEN total
                          ELSE rows[Len(rows)].remainingAfter
             remainingAfter == Max(remaining - entries[Len(entries)], 0)
         IN  Append(rows, [month |-> Len(entries), remaining |-> remaining,
                           remainingAfter |-> remainingAfter])

\* the entry used when there is no month entry: the current month (0 here)
\* with no event (Index.tsx lines 247-255 and 1152-1162)
OrCurrentMonth(entries) ==
    IF Len(entries) # 0
    THEN [i \in DOMAIN entries |-> [month |-> i, count |-> entries[i]]]
    ELSE <<[month |-> 0, count |-> 0]>>

\* the rows of plannedStartTrajectory (Index.tsx lines 257-262)
RECURSIVE PlannedStartRows(_, _)
PlannedStartRows(months, total) ==
    IF months = <<>> THEN <<>>
    ELSE LET rows == PlannedStartRows(SubSeq(months, 1, Len(months) - 1), total)
             entry == months[Len(months)]
             remaining == IF rows = <<>> THEN total ELSE rows[Len(rows)].remaining
             remainingAfterStart == Max(remaining - entry.count, 0)
         IN  Append(rows, [month |-> entry.month, plannedStarts |-> entry.count,
                           remaining |-> remainingAfterStart])

\* plannedStartTrajectory (Index.tsx lines 244-263)
plannedStartTrajectory(entries, total) ==
    PlannedStartRows(OrCurrentMonth(entries), total)

\* the rows of currentReduction (Index.tsx lines 1164-1171)
RECURSIVE CurrentReductionRows(_, _)
CurrentReductionRows(months, startTotal) ==
    IF months = <<>> THEN <<>>
    ELSE LET rows == CurrentReductionRows(SubSeq(months, 1, Len(months) - 1),
                                          startTotal)
             entry == months[Len(months)]
             remaining == IF rows = <<>> THEN startTotal
                          ELSE rows[Len(rows)].remaining
         IN  Append(rows, [month |-> entry.month,
                           remaining |-> Max(remaining - entry.count, 0),
                           completed |-> Min(entry.count, Max(remaining, 0))])

\* currentReduction (Index.tsx lines 1147-1174)
currentReduction(entries, startTotal) ==
    CurrentReductionRows(OrCurrentMonth(entries), startTotal)

\* A dashboard renders one of its charts for the given baseline and month
\* entries.
RenderCompletedDecline ==
    /\ trajectory.chart # "completedDecline"
    /\ trajectory' = [chart |-> "completedDecline",
                      rows |-> completedDecline(ordered, baseline)]
    /\ UNCHANGED <<remote, images, feed, subscribed, inflight, deliveries,
                   lastSnap, applied, bomItems, loading, error, calls, writes,
                   now, external, unmounted, pageState, baseline, ordered>>

RenderPlannedStartTrajectory ==
    /\ trajectory.chart # "plannedStartTrajectory"
    /\ trajectory' = [chart |-> "plannedStartTrajectory",
                      rows |-> plannedStartTrajectory(ordered, baseline)]
    /\ UNCHANGED <<remote, images, feed, subscribed, inflight, deliveries,
                   lastSnap, applied, bomItems, loading, error, calls, writes,
                   now, external, unmounted, pageState, baseline, ordered>>

RenderCurrentReduction ==
    /\ trajectory.chart # "currentReduction"
    /\ trajectory' = [chart |-> "currentReduction",
                      rows |-> currentReduction(ordered, baseline)]
    /\ UNCHANGED <<remote, images, feed, subscribed, inflight, deliveries,
                   lastSnap, applied, bomItems, loading, error, calls, writes,
                   now, external, unmounted, pageState, baseline, ordered>>

\* the monthly event counts given to the charts
CountArgs == {0, 1, 3, 4, 10}

RECURSIVE CountsUpTo(_)
CountsUpTo(n) ==
    IF n = 0 THEN {<<>>}
    ELSE LET S == CountsUpTo(n - 1)
         IN  S \cup {Append(counts, c) : counts \in S, c \in CountArgs}

\* a loaded dashboard with an arbitrary baseline and arbitrary month entries
InitChart ==
    \E total \in 0..MaxBaseline : \E counts \in CountsUpTo(MaxMonths) :
        /\ remote = NullData
        /\ images = {}
        /\ feed = <<>>
        /\ subscribed = TRUE
        /\ inflight = {}
        /\ deliveries = 1
        /\ lastSnap = NullData
        /\ applied = 1
        /\ bomItems = <<>>
        /\ loading = FALSE
        /\ error = Null
        /\ calls = <<>>
        /\ writes = <<>>
        /\ now = 0
        /\ external = 0
        /\ unmounted = FALSE
        /\ InitPage
        /\ baseline = total
        /\ ordered = counts
        /\ trajectory = [chart |-> "", rows |-> <<>>]

NextChart ==
    \/ RenderCompletedDecline
    \/ RenderPlannedStartTrajectory
    \/ RenderCurrentReduction

SpecChart == InitChart /\ [][NextChart]_vars

(***************************************************************************)
(* Dates (date-fns, Index.tsx line 2).  A valid Date is [year, month, day]; *)
(* the texts of the records are calendar dates or instants at midnight     *)
(* UTC, and the page runs in the UTC time zone.  Of the formats parseISO   *)
(* accepts, the extended calendar date with an optional time part is       *)
(* modelled; every other text is an Invalid Date.                          *)
(***************************************************************************)
InvalidDate == [year |-> 0, month |-> 0, day |-> 0]

DaysInMonth(y, m) ==
    IF m = 2
    THEN (IF (y % 4 = 0 /\ y % 100 # 0) \/ y % 400 = 0 THEN 29 ELSE 28)
    ELSE IF m \in {4, 6, 9, 11} THEN 30 ELSE 31

parseISO(chars) ==
    IF /\ Len(chars) >= 10
       /\ DigitRun(chars, 1) = 4
       /\ chars[5] = "-"
       /\ DigitRun(chars, 6) = 2
       /\ chars[8] = "-"
       /\ DigitRun(chars, 9) = 2
       /\ (Len(chars) = 10 \/ chars[11] = "T")
    THEN LET y == DigitsValue(chars, 1, 4)
             m == DigitsValue(chars, 6, 2)
             d == DigitsValue(chars, 9, 2)
         IN  IF m \in 1..12 /\ d \in 1..DaysInMonth(y, m)
             THEN [year |-> y, month |-> m, day |-> d]
             ELSE InvalidDate
    ELSE InvalidDate

\* null where a Date is expected
NullDate == [year |-> -1, month |-> 0, day |-> 0]

\* parseDate (Index.tsx lines 66-70): null for an empty, absent or invalid
\* text
parseDate(value) ==
    IF value \in {"", Undefined} THEN NullDate
    ELSE IF parseISO(Characters(value)) # InvalidDate
         THEN parseISO(Characters(value)) ELSE NullDate

\* +startOfMonth(date): an instant, counted in months
startOfMonth(date) == date.year * 12 + (date.month - 1)

\* isBefore(a, b) on instants at midnight
isBefore(a, b) ==
    \/ a.year < b.year
    \/ a.year = b.year /\ a.month < b.month
    \/ a.year = b.year /\ a.month = b.month /\ a.day < b.day

\* new Date() when the charts are computed
today == [year |-> 2025, month |-> 7, day |-> 1]

\* a + b on numbers
Add(a, b) ==
    IF a.k = "nan" \/ b.k = "nan" THEN NaN
    ELSE IF a.k = "fin" /\ b.k = "fin" THEN Fin(a.v + b.v)
    ELSE IF a.k = "fin" THEN b
    ELSE IF b.k = "fin" \/ a.k = b.k THEN a
    ELSE NaN

(***************************************************************************)
(* The dashboards' monthly views (Index.tsx lines 166-242).  Each fills a  *)
(* Map keyed by format(date, 'yyyy-MM') in the order of the items and      *)
(* returns its values sorted by sortValue; an entry's month label is given *)
(* here by the month's number.                                             *)
(***************************************************************************)
\* the date of a Finished item (lines 169 and 179)
CompletionDate(item) ==
    IF parseDate(item.Latest_Component_Date) # NullDate
    THEN parseDate(item.Latest_Component_Date)
    ELSE parseDate(item.Status_UpdatedAt)

\* completed2025 (lines 166-173)
completed2025 ==
    SelectSeq(completedItems,
              LAMBDA item : /\ CompletionDate(item) # NullDate
                            /\ CompletionDate(item).year = 2025)

\* the date a monthly view reads from an item (lines 179, 203 and 229); an
\* item of the store has a Planned_Start only if the normalizer gave it one
DateFor(view, item) ==
    CASE view = "completedChart" -> CompletionDate(item)
      [] view = "planForecast" -> parseDate(item.Expected_Completion)
      [] view = "plannedStartSchedule" ->
            parseDate(IF "Planned_Start" \in DOMAIN item
                      THEN item.Planned_Start ELSE Undefined)

\* the values of the Map after the forEach over items: one entry per key, in
\* the order in which the keys were first met
RECURSIVE MonthMap(_, _)
MonthMap(items, view) ==
    IF items = <<>> THEN <<>>
    ELSE LET entries == MonthMap(SubSeq(items, 1, Len(items) - 1), view)
             item == items[Len(items)]
             date == DateFor(view, item)
             key == <<date.year, date.month>>
             late == IF view = "planForecast" /\ isBefore(date, today)
                     THEN 1 ELSE 0
         IN  IF date = NullDate THEN entries
             ELSE IF \E i \in DOMAIN entries : entries[i].key = key
                  THEN [i \in DOMAIN entries |->
                           IF entries[i].key = key
                           THEN [entries[i] EXCEPT
                                    !.count = @ + 1,
                                    !.value = Add(@, OrZero(item.Value)),
                                    !.delayed = @ + late]
                           ELSE entries[i]]
                  ELSE Append(entries,
                              [key |-> key, month |-> date.month,
                               sortValue |-> startOfMonth(date), count |-> 1,
                               value |-> Add(Zero, OrZero(item.Value)),
                               delayed |-> late])

\* entries.sort((a, b) => a.sortValue - b.sortValue): the comparator is
\* consistent, so the sort is the stable one
RECURSIVE SortBySortValue(_)
SortBySortValue(entries) ==
    IF entries = <<>> THEN <<>>
    ELSE LET sorted == SortBySortValue(SubSeq(entries, 1, Len(entries) - 1))
             x == entries[Len(entries)]
             n == Cardinality({i \in DOMAIN sorted :
                                  sorted[i].sortValue <= x.sortValue})
         IN  SubSeq(sorted, 1, n) \o <<x>> \o SubSeq(sorted, n + 1, Len(sorted))

\* completedChart (lines 175-194)
completedChart ==
    LET entries == SortBySortValue(MonthMap(completed2025, "completedChart"))
    IN  [i \in DOMAIN entries |->
            [month |-> entries[i].month, sortValue |-> entries[i].sortValue,
             count |-> entries[i].count, value |-> entries[i].value]]

\* planForecast (lines 196-223)
planForecast ==
    LET entries == SortBySortValue(MonthMap(planItems, "planForecast"))
    IN  [i \in DOMAIN entries |->
            [month |-> entries[i].month, sortValue |-> entries[i].sortValue,
             parts |-> entries[i].count, value |-> entries[i].value,
             delayedParts |-> entries[i].delayed]]

\* plannedStartSchedule (lines 225-242)
plannedStartSchedule ==
    LET entries == SortBySortValue(MonthMap(currentBomItems, "plannedStartSchedule"))
    IN  [i \in DOMAIN entries |->
            [month |-> entries[i].month, sortValue |-> entries[i].sortValue,
             starts |-> entries[i].count]]

\* A dashboard renders one of its monthly views from the store's items.
RenderMonthly(view) ==
    /\ ~loading
    /\ error = Null
    /\ trajectory.chart # view
    /\ trajectory' =
          [chart |-> view,
           rows |-> CASE view = "completedChart" -> completedChart
                      [] view = "planForecast" -> planForecast
                      [] view = "plannedStartSchedule" -> plannedStartSchedule]
    /\ UNCHANGED <<remote, images, feed, subscribed, inflight, deliveries,
                   lastSnap, applied, bomItems, loading, error, calls, writes,
                   now, external, unmounted, pageState, baseline, ordered>>

\* the records the monthly views are given: Finished, In Progress and Not
\* Start records with dates of several months and years, with a text that
\* is no date, and with no date
MonthlyRecords ==
    LET plain == [Description_EN |-> "Inductor 300uH", Kanban_Flag |-> "",
                  Standard_Price |-> <<"3">>, Total_Qty |-> <<"2">>]
    IN  {RecInd, RecRes, RecCap,
         plain @@ [Transfer_Status |-> "Finished",
                   Status_UpdatedAt |-> "2025-04-02T00:00:00.000Z"],
         plain @@ [Transfer_Status |-> "Finished",
                   Latest_Component_Date |-> "2024-12-15"],
         plain @@ [Transfer_Status |-> "Finished",
                   Latest_Component_Date |-> "2025-02-30"],
         plain @@ [Transfer_Status |-> "In Progress",
                   Expected_Completion |-> "2025-09-01T00:00:00.000Z"],
         plain @@ [Transfer_Status |-> "In Progress"]}

\* a loaded dashboard whose store holds one item per key
InitMonthly ==
    \E data \in [Keys -> MonthlyRecords] :
        /\ remote = data
        /\ images = {}
        /\ feed = <<>>
        /\ subscribed = TRUE
        /\ inflight = {}
        /\ deliveries = 1
        /\ lastSnap = data
        /\ applied = 1
        /\ bomItems = NormalizeAll(data, {})
        /\ loading = FALSE
        /\ error = Null
        /\ calls = <<>>
        /\ writes = <<>>
        /\ now = 0
        /\ external = 0
        /\ unmounted = FALSE
        /\ InitPage
        /\ NoChart

NextMonthly ==
    \E view \in {"completedChart", "planForecast", "plannedStartSchedule"} :
        RenderMonthly(view)

SpecMonthly == InitMonthly /\ [][NextMonthly]_vars

(***************************************************************************)
(* An editing session on the dashboard: the status buttons, the Reason /   *)
(* Brand inputs and the expected-completion selector of the rendered       *)
(* items, each of which calls a mutation method of the hook.               *)
(***************************************************************************)
\* Variant of handleStatusClick that does not look at the updating flag.
handleStatusClickUnguarded(id, newStatus) ==
    /\ Rendered(id)
    /\ newStatus # StatusOf(bomItems[CHOOSE i \in DOMAIN bomItems :
                                         bomItems[i].Component_Material = id])
    /\ isUpdating' = isUpdating \cup {id}
    /\ IssueWriteWithin(MaxEdits, "updateStatus", id, <<newStatus>>,
                        StatusUpdates(id, newStatus, Clock))
    /\ UNCHANGED <<searchTerm, kanbanFilter, statusFilter, sortField,
                   sortDirection, filteredAndSortedBomItems>>

\* handleStatusClick (StatusButton.tsx lines 43-55) up to its await: a click
\* on the current status or on an updating button returns at once
handleStatusClick(id, newStatus) ==
    /\ Rendered(id)
    /\ LET item == bomItems[CHOOSE i \in DOMAIN bomItems :
                                bomItems[i].Component_Material = id]
           currentStatus == StatusOf(item)
       IN  IF id \in isUpdating \/ newStatus = currentStatus
           THEN UNCHANGED vars
           ELSE /\ isUpdating' = isUpdating \cup {id}
                /\ IssueWriteWithin(MaxEdits, "updateStatus", id, <<newStatus>>,
                                    StatusUpdates(id, newStatus, Clock))
                /\ UNCHANGED <<searchTerm, kanbanFilter, statusFilter, sortField,
                               sortDirection, filteredAndSortedBomItems>>

\* handleStatusClick after its await (lines 46-54): updateStatus has
\* resolved, true or false, and the flag is cleared
StatusClickReturns(id) ==
    /\ id \in isUpdating
    /\ \A c \in DOMAIN calls :
          (calls[c].method = "updateStatus" /\ calls[c].id = id)
              => calls[c].result # "pending"
    /\ isUpdating' = isUpdating \ {id}
    /\ UNCHANGED <<remote, images, feed, subscribed, inflight, deliveries,
                   lastSnap, applied, bomItems, loading, error, calls, writes,
                   now, external, unmounted, searchTerm, kanbanFilter,
                   statusFilter, sortField, sortDirection,
                   filteredAndSortedBomItems, chartState>>

\* onBlur of the Reason or the Brand input of a Not to Transfer item
\* (Index.tsx lines 741-768): the edited field gets the input's value, the
\* other one is taken from the rendered item
onBlur(id, field, value) ==
    /\ RenderedWithStatus(id, "Not to Transfer")
    /\ LET item == bomItems[CHOOSE i \in DOMAIN bomItems :
                                bomItems[i].Component_Material = id]
           reason == IF field = "NotToTransferReason"
                     THEN value ELSE item.NotToTransferReason
           brand == IF field = "Brand" THEN value ELSE item.Brand
       IN  IssueWriteWithin(MaxEdits, "updateNotToTransferDetails", id,
                            <<reason, brand>>,
                            NotToTransferUpdates(id, reason, brand))
    /\ UNCHANGED pageState

\* onChange of the expected-completion selector of an In Progress item
\* (Index.tsx lines 563-568)
onExpectedCompletionChange(id, newDate) ==
    /\ RenderedWithStatus(id, "In Progress")
    /\ IssueWriteWithin(MaxEdits, "updateExpectedCompletion", id, <<newDate>>,
                        ExpectedCompletionUpdates(id, newDate))
    /\ UNCHANGED pageState

\* one item, held or in progress
InitEdits ==
    \E r \in {("CAP-100" :> RecHold), ("RES-200" :> RecRes)} : InitStore(r, {})

NextEdits ==
    \/ DeliverSnapshot
    \/ ResolveImage
    \/ \E id \in Keys : \E status \in {"In Progress", "Not to Transfer"} :
          handleStatusClick(id, status)
    \/ \E id \in Keys : StatusClickReturns(id)
    \/ \E id \in Keys :
          \/ onBlur(id, "NotToTransferReason", "Local supplier")
          \/ onBlur(id, "Brand", "ACME")
    \/ \E id \in Keys : \E d \in DateArgs : onExpectedCompletionChange(id, d)
    \/ \E ok \in BOOLEAN : SettleWrite(ok)

SpecEdits == InitEdits /\ [][NextEdits]_vars

(***************************************************************************)
(* Properties.                                                             *)
(***************************************************************************)
\* the store holds the result of the most recently delivered snapshot
StoreIsCurrent == applied > 0 /\ applied = deliveries

NoDigit(s) == \A i \in 1..Len(s) : ~IsDigit(s[i])

\* the field is missing, or a string with no digit that is not an
\* Infinity literal
MissingOrNonNumeric(rec, f) ==
    \/ f \notin DOMAIN rec
    \/ /\ NoDigit(rec[f])
       /\ ~HasPrefix(SubSeq(rec[f], SignLen(rec[f]) + 1, Len(rec[f])), InfinityChars)

WritesOf(c) == {w \in DOMAIN writes : writes[w].by = c}

FieldsOf(updates) == {p[3] : p \in DOMAIN updates}

\* C1: every normalized item's Value is its normalized Standard_Price times
\* its normalized Total_Qty; a missing or non-numeric price or quantity is
\* normalized to 0 and Value is then 0; "12.5" and "4" give 12.5, 4 and 50.
C1_ValueIsPriceTimesQty ==
    StoreIsCurrent =>
        \A i \in DOMAIN bomItems :
            LET it == bomItems[i]
                raw == lastSnap[it.Component_Material]
            IN  /\ it.Value = Mul(it.Standard_Price, it.Total_Qty)
                /\ MissingOrNonNumeric(raw, "Standard_Price")
                      => (it.Standard_Price = Zero /\ it.Value = Zero)
                /\ MissingOrNonNumeric(raw, "Total_Qty")
                      => (it.Total_Qty = Zero /\ it.Value = Zero)
                /\ ("Standard_Price" \in DOMAIN raw /\ "Total_Qty" \in DOMAIN raw
                      /\ raw.Standard_Price = <<"1", "2", ".", "5">>
                      /\ raw.Total_Qty = <<"4">>)
                      => /\ it.Standard_Price = Fin(125 * (Scale \div 10))
                         /\ it.Total_Qty = Fin(4 * Scale)
                         /\ it.Value = Fin(50 * Scale)

\* C2: every normalized item's Transfer_Status is one of the five variants;
\* an absent, empty or unrecognized raw Transfer_Status becomes Not Start.
C2_StatusIsKnownVariant ==
    StoreIsCurrent =>
        \A i \in DOMAIN bomItems :
            LET it == bomItems[i]
                raw == lastSnap[it.Component_Material]
            IN  /\ it.Transfer_Status \in TransferStatus
                /\ ("Transfer_Status" \notin DOMAIN raw
                      \/ raw.Transfer_Status \notin TransferStatus)
                      => it.Transfer_Status = "Not Start"

\* C3: updateStatus(id, status) issues exactly one write call, holding
\* Transfer_Status = status and Status_UpdatedAt = the time of the call for
\* that id; it resolves true when the write succeeds, false when it rejects,
\* and never throws.
C3_UpdateStatusOneWrite ==
    \A c \in DOMAIN calls :
        calls[c].method = "updateStatus" =>
            /\ Cardinality(WritesOf(c)) = 1
            /\ calls[c].result \in {"pending", "true", "false"}
            /\ \A w \in WritesOf(c) :
                  LET u == writes[w].updates
                      id == calls[c].id
                  IN  /\ DOMAIN u = {Path(id, "Transfer_Status"),
                                     Path(id, "Status_UpdatedAt")}
                      /\ u[Path(id, "Transfer_Status")] = calls[c].args[1]
                      /\ u[Path(id, "Status_UpdatedAt")] = ToISOString(calls[c].at)
                      /\ (calls[c].result = "true") <=> (writes[w].state = "acked")
                      /\ (calls[c].result = "false") <=> (writes[w].state = "rejected")

C3_Witness ==
    \E c \in DOMAIN calls :
        /\ calls[c].method = "updateStatus"
        /\ calls[c].result = "true"
        /\ \E w \in WritesOf(c) : writes[w].state = "acked"

\* C4: a step of a mutation method (its call or its settling) never changes
\* the in-memory collection, whether the write succeeds or fails; a rejected
\* write makes the method resolve false with the items as they were.
C4_NoLocalMutation ==
    [][ /\ (calls' # calls) => (bomItems' = bomItems)
        /\ \A w \in DOMAIN writes :
              (writes[w].state = "pending" /\ writes'[w].state = "rejected")
                  => /\ calls'[writes[w].by].result = "false"
                     /\ bomItems' = bomItems ]_vars

C4_Witness ==
    \E c \in DOMAIN calls :
        /\ calls[c].method = "updateStatus"
        /\ calls[c].result = "false"
        /\ \E i \in DOMAIN bomItems :
              /\ bomItems[i].Component_Material = calls[c].id
              /\ bomItems[i].Transfer_Status # calls[c].args[1]

\* C5: each updateNotToTransferDetails(id, reason, brand) makes exactly one
\* write call, and that call holds both NotToTransferReason and Brand of id.
C5_DetailsWrittenTogether ==
    \A c \in DOMAIN calls :
        calls[c].method = "updateNotToTransferDetails" =>
            /\ Cardinality(WritesOf(c)) = 1
            /\ \A w \in WritesOf(c) :
                  LET u == writes[w].updates
                      id == calls[c].id
                  IN  /\ DOMAIN u = {Path(id, "NotToTransferReason"),
                                     Path(id, "Brand")}
                      /\ u[Path(id, "NotToTransferReason")] = calls[c].args[1]
                      /\ u[Path(id, "Brand")] = calls[c].args[2]

C5_Witness ==
    \E c \in DOMAIN calls :
        /\ calls[c].method = "updateNotToTransferDetails"
        /\ calls[c].result = "true"
        /\ calls[c].id \in DOMAIN remote
        /\ "NotToTransferReason" \in DOMAIN remote[calls[c].id]
        /\ "Brand" \in DOMAIN remote[calls[c].id]

\* C6: a write holds Status_UpdatedAt of an id exactly when it holds
\* Transfer_Status of that id, and no write of updateExpectedCompletion,
\* updatePlannedStart or updateNotToTransferDetails holds either field.
C6_TimestampOnlyWithStatus ==
    \A w \in DOMAIN writes :
        LET u == writes[w].updates
        IN  /\ \A p \in DOMAIN u :
                  (Path(p[2], "Transfer_Status") \in DOMAIN u)
                      <=> (Path(p[2], "Status_UpdatedAt") \in DOMAIN u)
            /\ calls[writes[w].by].method \in
                  {"updateExpectedCompletion", "updatePlannedStart",
                   "updateNotToTransferDetails"}
                  => FieldsOf(u) \cap {"Transfer_Status", "Status_UpdatedAt"} = {}

C6_Witness ==
    \E w \in DOMAIN writes :
        /\ calls[writes[w].by].method = "updateExpectedCompletion"
        /\ writes[w].state = "acked"

\* C7: every write addresses only paths bom_summary/<componentMaterial>/<field>
\* of one component, and its set of fields is one of the four groups; no
\* other field or combination is written and no whole record is written.
FieldGroups ==
    {{"Transfer_Status", "Status_UpdatedAt"}, {"Expected_Completion"},
     {"Planned_Start"}, {"NotToTransferReason", "Brand"}}

C7_WhitelistedFieldGroups ==
    \A w \in DOMAIN writes :
        LET u == writes[w].updates
        IN  /\ \A p \in DOMAIN u :
                  Len(p) = 3 /\ p[1] = "bom_summary" /\ p[2] \in Keys
            /\ Cardinality({p[2] : p \in DOMAIN u}) = 1
            /\ FieldsOf(u) \in FieldGroups

C7_Witness ==
    \E w \in DOMAIN writes :
        /\ FieldsOf(writes[w].updates) = {"Transfer_Status", "Status_UpdatedAt"}
        /\ writes[w].state = "acked"
        /\ \E id \in DOMAIN remote :
              /\ Path(id, "Transfer_Status") \in DOMAIN writes[w].updates
              /\ "Description_EN" \in DOMAIN remote[id]

\* C8: a call of updatePlannedStart from the planned-start selector makes
\* one write of the Planned_Start field of id and resolves true or false,
\* never ending in an unhandled fault.
C8_PlannedStartWrites ==
    \A c \in DOMAIN calls :
        calls[c].method = "updatePlannedStart" =>
            /\ calls[c].result \in {"pending", "true", "false"}
            /\ Cardinality(WritesOf(c)) = 1
            /\ \A w \in WritesOf(c) :
                  DOMAIN writes[w].updates = {Path(calls[c].id, "Planned_Start")}

\* C9: once the normalizations of all delivered snapshots have settled, the
\* collection is the normalization of the snapshot delivered last.
C9_LastSnapshotWins ==
    (deliveries >= 2 /\ inflight = {})
        => bomItems = NormalizeAll(lastSnap, images)

\* C10: a step that applies a successfully normalized snapshot leaves the
\* store with no error (and not loading), also after a subscription error.
C10_SuccessClearsError ==
    [][ (applied' # applied) => (error' = Null /\ ~loading') ]_vars

\* C11: the store opens one subscription on bom_summary and releases it
\* when its scope ends: once the cleanup function has run, the snapshot
\* callback is never invoked again and the items, the loading flag and the
\* error are never changed again.
C11_ReleasedOnCleanup ==
    [][unmounted => UNCHANGED <<deliveries, bomItems, loading, error>>]_vars

Range(seq) == {seq[i] : i \in DOMAIN seq}

\* C12: the dashboard's status buckets are a total partition of the
\* snapshot: every item, whatever its Transfer_Status, is in exactly one
\* bucket, and the bucket sizes (the parts baseline) add up to the number
\* of items.
C12_BucketsPartition ==
    LET buckets == <<completedItems, planItems, currentBomItems, remainingItems>>
    IN  ~loading =>
          /\ totalPartsBaseline = Len(bomItems)
          /\ \A i \in DOMAIN bomItems :
                Cardinality({b \in DOMAIN buckets :
                                bomItems[i] \in Range(buckets[b])}) = 1

RECURSIVE SumOver(_, _)
SumOver(S, f) ==
    IF S = {} THEN 0
    ELSE LET x == CHOOSE y \in S : TRUE IN f[x] + SumOver(S \ {x}, f)

\* C13: in the rollup the per-status counts add up to the number of
\* items, the per-status values to the total value and the per-status
\* quantities to the total quantity, and every item is counted in the
\* bucket of its own Transfer_Status (a Temporary Usage item in the
\* Temporary Usage bucket).
C13_RollupSums ==
    ~loading =>
      /\ SumOver(TransferStatus, [s \in TransferStatus |-> CardTotal(s, "count")])
            = totalParts
      /\ SumOver(TransferStatus, [s \in TransferStatus |-> CardTotal(s, "value")])
            = totalBomValue
      /\ SumOver(TransferStatus, [s \in TransferStatus |-> CardTotal(s, "qty")])
            = totalQty
      /\ \A s \in TransferStatus :
            CardTotal(s, "count")
              = Len(SelectSeq(bomItems, LAMBDA item : item.Transfer_Status = s))

\* the remaining total after each month of the chart computed last
RemainingAfter ==
    [i \in DOMAIN trajectory.rows |->
        IF trajectory.chart = "completedDecline"
        THEN trajectory.rows[i].remainingAfter
        ELSE trajectory.rows[i].remaining]

\* C14: for any non-negative baseline and non-negative monthly counts in
\* month order, every decline chart starts from the baseline and has
\* remainingAfter[i] = max(remaining[i-1] - count[i], 0), so the remaining
\* total never increases and never goes below zero.
C14_DeclineRecurrence ==
    (trajectory.chart # "" /\ ordered # <<>>) =>
        LET before(i) == IF i = 1 THEN baseline ELSE RemainingAfter[i - 1]
        IN  /\ Len(trajectory.rows) = Len(ordered)
            /\ \A i \in DOMAIN trajectory.rows :
                  /\ RemainingAfter[i] = Max(before(i) - ordered[i], 0)
                  /\ RemainingAfter[i] <= before(i)
                  /\ RemainingAfter[i] >= 0
                  /\ trajectory.chart = "completedDecline"
                        => trajectory.rows[i].remaining = before(i)

\* baseline 10 with counts 3, 4, 10: the completion decline is 7, 3, 0
C14_Witness ==
    /\ baseline = 10
    /\ ordered = <<3, 4, 10>>
    /\ trajectory.chart = "completedDecline"
    /\ RemainingAfter = <<7, 3, 0>>

\* position of an item in a list of items with distinct keys
PositionIn(items, item) == CHOOSE i \in DOMAIN items : items[i] = item

\* C15: sorting is stable: for every sort field and direction, two items
\* with equal sort keys are in the output in the same relative order as in
\* the input of the sort.
C15_SortIsStable ==
    [][ LET input == FilterBom(bomItems, searchTerm', kanbanFilter', statusFilter')
            output == filteredAndSortedBomItems'
            key(item) == SortValue(item, sortField')
        IN  \A i, j \in DOMAIN input :
                (i < j /\ key(input[i]).k = "fin" /\ key(input[i]) = key(input[j]))
                    => PositionIn(output, input[i]) < PositionIn(output, input[j])
      ]_vars

\* text contains query when letter case is ignored
ContainsIgnoringCase(text, query) ==
    \E i \in 0..(Len(text) - Len(query)) :
        \A j \in 1..Len(query) :
            \/ text[i + j] = query[j]
            \/ \E u \in DOMAIN UpperCase :
                  {text[i + j], query[j]} = {UpperCase[u], LowerCase[u]}

\* C16: with no other filter active, the search keeps exactly the items
\* whose Component_Material or Description_EN contains the query as a
\* case-insensitive substring, and the empty query keeps every item
\* ("cap" over CAP-100 and RES-200 keeps CAP-100 only).
C16_SearchFilter ==
    (kanbanFilter = "all" /\ statusFilter = "all") =>
        /\ Range(filteredAndSortedBomItems) =
              {item \in Range(bomItems) :
                  \/ ContainsIgnoringCase(Characters(item.Component_Material),
                                          searchTerm)
                  \/ ContainsIgnoringCase(Characters(item.Description_EN),
                                          searchTerm)}
        /\ searchTerm = <<>>
              => Len(filteredAndSortedBomItems) = Len(bomItems)

\* "cap" typed over CAP-100 and RES-200: the table shows CAP-100 only
C16_Witness ==
    /\ searchTerm = <<"c", "a", "p">>
    /\ {item.Component_Material : item \in Range(bomItems)} = {"CAP-100", "RES-200"}
    /\ {item.Component_Material : item \in Range(filteredAndSortedBomItems)}
          = {"CAP-100"}

\* C17: from each of the five transfer statuses a user action moves an
\* item to each of the other four: for every item on screen, every status
\* other than its own can be asked for.
C17_EveryStatusReachable ==
    \A i \in DOMAIN bomItems :
        Rendered(bomItems[i].Component_Material) =>
            \A status \in TransferStatus \ {StatusOf(bomItems[i])} :
                status \in ClickTargets(StatusOf(bomItems[i]))

\* the suspended callback t resumes in this step and sets the store
Resumes(t) == t \in inflight /\ \A u \in inflight' : u.sn # t.sn

\* C18: the normalized collection has exactly one item per key of the raw
\* snapshot, with Component_Material equal to the key (no key dropped or
\* duplicated), and a null snapshot gives the empty collection.
C18_OneItemPerKey ==
    [][ /\ \A t \in inflight :
              Resumes(t) =>
                  /\ Len(bomItems') = Cardinality(DOMAIN t.data)
                  /\ \A key \in DOMAIN t.data :
                        Cardinality({i \in DOMAIN bomItems' :
                            bomItems'[i].Component_Material = key}) = 1
        /\ (deliveries' # deliveries /\ Head(feed) = NullData)
              => bomItems' = <<>>
      ]_vars

\* a snapshot with two keys has been normalized into two items
C18_Witness ==
    /\ applied > 0
    /\ Len(bomItems) = 2
    /\ {bomItems[i].Component_Material : i \in DOMAIN bomItems}
          = {"CAP-100", "RES-200"}

\* C19: a failed image lookup never aborts the normalization of the
\* batch: whatever subset of the lookups fails, the callback resumes with
\* one item per key, the items whose lookup failed have no image URL (the
\* others have theirs), and the store is set only when every lookup of the
\* batch has settled.
C19_ImageFailureTolerated ==
    [][ /\ \A t \in inflight :
              Resumes(t) =>
                  /\ Cardinality(t.pending) = 1
                  /\ {bomItems'[i].Component_Material : i \in DOMAIN bomItems'}
                        = DOMAIN t.data
                  /\ \A i \in DOMAIN bomItems' :
                        (bomItems'[i].imageUrl = <<Undefined>>)
                            <=> (bomItems'[i].Component_Material \notin images)
        /\ (deliveries' = deliveries /\ \A t \in inflight : ~Resumes(t))
              => bomItems' = bomItems
      ]_vars

\* a batch of four in which some lookups failed and some succeeded
C19_Witness ==
    /\ applied > 0
    /\ Len(bomItems) = 4
    /\ \E i, j \in DOMAIN bomItems :
          /\ bomItems[i].imageUrl = <<Undefined>>
          /\ bomItems[j].imageUrl # <<Undefined>>

\* C20: when the subscription reports an error the store takes an error
\* state and loading ends; while the error is set the page shows the error
\* alone and none of the items; the error is never dropped.
C20_ErrorShownAlone ==
    [][ /\ (subscribed /\ ~subscribed') => (error' # Null /\ ~loading')
        /\ error # Null => error' = error
        /\ error' # Null =>
              /\ Screen' = "alert"
              /\ \A id \in Keys : ~Rendered(id)'
      ]_vars

\* the subscription failed while the store held items
C20_Witness ==
    /\ ~subscribed
    /\ error = "Failed to fetch data from Firebase"
    /\ bomItems # <<>>
    /\ Screen = "alert"

\* the store has caught up with the remote collection: the subscription is
\* alive, no value event, no normalization and no write is pending, and the
\* snapshot applied last is the current remote content
CaughtUp ==
    /\ subscribed
    /\ feed = <<>>
    /\ inflight = {}
    /\ PendingWrites = {}
    /\ applied = deliveries
    /\ lastSnap = remote

\* the item of the given component in the store
ItemOf(id) == bomItems[CHOOSE i \in DOMAIN bomItems : bomItems[i].Component_Material = id]

\* the fields a mutation method is to write, with the values of the call
WrittenBy(call) ==
    CASE call.method = "updateStatus" ->
            [Transfer_Status |-> call.args[1],
             Status_UpdatedAt |-> ToISOString(call.at)]
      [] call.method = "updateExpectedCompletion" ->
            [Expected_Completion |->
                IF call.args[1] = Null THEN "" ELSE call.args[1]]
      [] call.method = "updatePlannedStart" ->
            [Planned_Start |-> call.args[1]]
      [] call.method = "updateNotToTransferDetails" ->
            [NotToTransferReason |-> call.args[1], Brand |-> call.args[2]]

\* C21: write-then-read round trip: when a mutation asked for from the page
\* has ended without a failed write and the store has caught up with the
\* remote collection (no other writer having changed it), the item with that
\* id carries the written value in each written field (Transfer_Status and
\* Status_UpdatedAt; Expected_Completion; Planned_Start; NotToTransferReason
\* and Brand) and its other fields are as the first snapshot gave them.
C21_WriteThenRead ==
    (Len(calls) = 1 /\ external = 0 /\ CaughtUp
        /\ calls[1].result \notin {"pending", "false"}) =>
        /\ Rendered(calls[1].id)
        /\ LET item == ItemOf(calls[1].id)
               written == WrittenBy(calls[1])
               before == NormalizeItem(calls[1].id, RecCap,
                                       getComponentImageUrl(calls[1].id, images))
           IN  /\ \A f \in DOMAIN written :
                     f \in DOMAIN item /\ item[f] = written[f]
               /\ \A f \in DOMAIN before \ DOMAIN written : item[f] = before[f]

\* the event count shown by row i of the chart computed last
EventsOf(i) ==
    CASE trajectory.chart = "plannedStartTrajectory" -> trajectory.rows[i].plannedStarts
      [] trajectory.chart = "currentReduction" -> trajectory.rows[i].completed
      [] OTHER -> trajectory.rows[i].remaining - trajectory.rows[i].remainingAfter

\* C22: every decline chart has as many rows as there are month entries;
\* with no month entry it has exactly one row, for the current month, with
\* zero events and the remaining total equal to the baseline; no chart, the
\* completion decline included, is ever empty.
C22_TrajectoryNeverEmpty ==
    trajectory.chart # "" =>
        /\ trajectory.rows # <<>>
        /\ ordered # <<>> => Len(trajectory.rows) = Len(ordered)
        /\ ordered = <<>> =>
              /\ Len(trajectory.rows) = 1
              /\ trajectory.rows[1].month = 0
              /\ EventsOf(1) = 0
              /\ RemainingAfter[1] = baseline

\* the status bucket a monthly view is computed from
BucketOf(view) ==
    CASE view = "completedChart" -> completedItems
      [] view = "planForecast" -> planItems
      [] view = "plannedStartSchedule" -> currentBomItems

\* the number of items a row of the monthly view computed last stands for
RowCount(i) ==
    CASE trajectory.chart = "completedChart" -> trajectory.rows[i].count
      [] trajectory.chart = "planForecast" -> trajectory.rows[i].parts
      [] trajectory.chart = "plannedStartSchedule" -> trajectory.rows[i].starts

\* C23: a monthly view of a status bucket has one row per distinct calendar
\* month of the dates of the bucket's items, in strictly ascending order of
\* month start; the items without a parseable date are in no row, so the
\* rows' counts add up to the number of items with a parseable date; in a
\* forecast row the delayed count is at most the row's count.
C23_MonthlyBuckets ==
    trajectory.chart \in {"completedChart", "planForecast", "plannedStartSchedule"} =>
        LET view == trajectory.chart
            rows == trajectory.rows
            items == BucketOf(view)
            dated == {i \in DOMAIN items : DateFor(view, items[i]) # NullDate}
            monthOf(i) == startOfMonth(DateFor(view, items[i]))
        IN  /\ \A i, j \in DOMAIN rows : i < j => rows[i].sortValue < rows[j].sortValue
            /\ {rows[i].sortValue : i \in DOMAIN rows} = {monthOf(i) : i \in dated}
            /\ \A i \in DOMAIN rows :
                  RowCount(i) = Cardinality({j \in dated : monthOf(j) = rows[i].sortValue})
            /\ SumOver(DOMAIN rows, [i \in DOMAIN rows |-> RowCount(i)])
                  = Cardinality(dated)
            /\ view = "planForecast"
                  => \A i \in DOMAIN rows : rows[i].delayedParts <= rows[i].parts

\* C24: deriving the filtered and sorted view never mutates its input: for
\* every search term, kanban filter, status filter, sort field and
\* direction, also when no filter is active, the store's array has the same
\* content in the same order after the derivation as before it.
C24_ViewLeavesInputAlone ==
    [][ filteredAndSortedBomItems' # filteredAndSortedBomItems
            => bomItems' = bomItems ]_vars

\* C25: while the normalization of a newly delivered snapshot is in flight
\* the store's collection is still the one normalized before: the
\* collection changes only in the step that applies a whole snapshot (the
\* resumption of a callback with one item per key, or the delivery of a null
\* snapshot), never to an empty or partly built value in between.
C25_NoIntermediateCollection ==
    [][ /\ bomItems' # bomItems =>
              \/ \E t \in inflight :
                    /\ Resumes(t)
                    /\ applied' = t.sn
                    /\ bomItems' = NormalizeAll(t.data, images)
              \/ /\ deliveries' # deliveries
                 /\ Head(feed) = NullData
                 /\ applied' = deliveries'
                 /\ bomItems' = <<>>
        /\ (deliveries' # deliveries /\ Head(feed) # NullData)
              => (bomItems' = bomItems /\ loading' = loading)
      ]_vars

\* the store still shows the four items of the first snapshot while the
\* normalization of a later, different snapshot is in flight
C25_Witness ==
    /\ applied = 1
    /\ Len(bomItems) = 4
    /\ \E t \in inflight : t.sn > applied /\ t.data # FullRemote

\* C26: after normalization every item has Standard_Price >= 0, Total_Qty
\* an integer >= 0 and therefore Value >= 0, for every raw Standard_Price
\* and Total_Qty: negative numbers, numeric strings with a fractional part
\* or trailing text included.
C26_NonNegativeNumbers ==
    StoreIsCurrent =>
        \A i \in DOMAIN bomItems :
            LET it == bomItems[i]
            IN  /\ it.Standard_Price.k = "fin" /\ it.Standard_Price.v >= 0
                /\ it.Total_Qty.k = "fin" /\ it.Total_Qty.v >= 0
                /\ it.Total_Qty.v % Scale = 0
                /\ it.Value.k = "fin" /\ it.Value.v >= 0

\* C27: no lost update between the two hold-detail inputs: when Brand and
\* then Reason of the same Not to Transfer item have been edited (two blur
\* events, the second after the first) and both writes have succeeded, the
\* remote record holds both edited values, whether or not a snapshot was
\* delivered between the two edits.
C27_NoLostDetailEdit ==
    \A c1, c2 \in DOMAIN calls :
        (/\ c1 < c2
         /\ c2 = Len(calls)
         /\ calls[c1].method = "updateNotToTransferDetails"
         /\ calls[c2].method = "updateNotToTransferDetails"
         /\ calls[c1].id = calls[c2].id
         /\ calls[c1].result = "true"
         /\ calls[c2].result = "true"
         /\ calls[c1].args[2] = "ACME"
         /\ calls[c2].args[1] = "Local supplier")
        => LET rec == remote[calls[c1].id]
           IN  /\ "Brand" \in DOMAIN rec /\ rec.Brand = "ACME"
               /\ "NotToTransferReason" \in DOMAIN rec
               /\ rec.NotToTransferReason = "Local supplier"

\* the status writes of the button of id that have not settled
StatusWritesInFlight(id) ==
    {c \in DOMAIN calls : /\ calls[c].method = "updateStatus"
                          /\ calls[c].id = id
                          /\ calls[c].result = "pending"}

\* C28: a status button has at most one status write in flight: a click on
\* the item's current status, or a click while a previous update has not
\* settled, issues no write; while a write is in flight the button is
\* updating, and once the write has settled, with success or failure, the
\* flag goes back to false and a later click issues a write again.
C28_OneStatusWriteInFlight ==
    [][ \A id \in Keys :
          /\ Cardinality(StatusWritesInFlight(id)') <= 1
          /\ StatusWritesInFlight(id)' # {} => id \in isUpdating'
          /\ (StatusWritesInFlight(id)' \ StatusWritesInFlight(id) # {}) =>
                /\ id \notin isUpdating
                /\ StatusWritesInFlight(id) = {}
                /\ \E i \in DOMAIN bomItems :
                      /\ bomItems[i].Component_Material = id
                      /\ StatusOf(bomItems[i]) # calls'[Len(calls')].args[1]
          /\ (id \in isUpdating /\ id \notin isUpdating')
                => StatusWritesInFlight(id) = {}
          /\ (id \in isUpdating /\ StatusWritesInFlight(id) = {})
                => ENABLED StatusClickReturns(id)
      ]_vars

\* the first status write of CAP-100 was rejected, the flag was cleared, and
\* a later click has issued a second write
C28_Witness ==
    /\ Len(calls) = 2
    /\ calls[1].method = "updateStatus" /\ calls[1].id = "CAP-100"
    /\ calls[1].result = "false"
    /\ calls[2].method = "updateStatus" /\ calls[2].id = "CAP-100"
    /\ calls[2].result = "pending"
    /\ "CAP-100" \in isUpdating

\* the call of the given method on id whose write was applied last
LastApplied(id, method) ==
    LET applied_calls == {c \in DOMAIN calls : /\ calls[c].method = method
                                               /\ calls[c].id = id
                                               /\ calls[c].result = "true"}
    IN  IF applied_calls = {} THEN 0
        ELSE CHOOSE c \in applied_calls : \A d \in applied_calls : d <= c

\* C29: writes of different mutation groups to the same item do not clobber
\* each other: whenever an updateStatus and an updateExpectedCompletion or
\* updateNotToTransferDetails on the same id have both succeeded, in
\* whichever order they were issued and applied, the remote record holds
\* the status (and timestamp) of the updateStatus applied last and the
\* field(s) of the other method's call applied last.
C29_GroupsDoNotClobber ==
    \A id \in Keys :
        \A other \in {"updateExpectedCompletion", "updateNotToTransferDetails"} :
            LET s == LastApplied(id, "updateStatus")
                o == LastApplied(id, other)
                rec == remote[id]
            IN  (s # 0 /\ o # 0) =>
                    /\ id \in DOMAIN remote
                    /\ "Transfer_Status" \in DOMAIN rec
                    /\ rec.Transfer_Status = calls[s].args[1]
                    /\ "Status_UpdatedAt" \in DOMAIN rec
                    /\ rec.Status_UpdatedAt = ToISOString(calls[s].at)
                    /\ other = "updateExpectedCompletion" =>
                          IF calls[o].args[1] = Null
                          THEN "Expected_Completion" \notin DOMAIN rec
                          ELSE /\ "Expected_Completion" \in DOMAIN rec
                               /\ rec.Expected_Completion = calls[o].args[1]
                    /\ other = "updateNotToTransferDetails" =>
                          /\ "NotToTransferReason" \in DOMAIN rec
                          /\ rec.NotToTransferReason = calls[o].args[1]
                          /\ "Brand" \in DOMAIN rec
                          /\ rec.Brand = calls[o].args[2]

\* RES-200 was set to Not to Transfer and then, still rendered as In
\* Progress, given an expected completion; both writes succeeded and the
\* record holds the new status and the date
C29_Witness ==
    /\ Len(calls) = 2
    /\ calls[1].method = "updateStatus" /\ calls[1].id = "RES-200"
    /\ calls[2].method = "updateExpectedCompletion" /\ calls[2].id = "RES-200"
    /\ calls[2].args = <<"2025-09-01T00:00:00.000Z">>
    /\ calls[1].result = "true" /\ calls[2].result = "true"
    /\ remote["RES-200"].Transfer_Status = "Not to Transfer"
    /\ remote["RES-200"].Expected_Completion = "2025-09-01T00:00:00.000Z"

\* C30: the view returned by useFilteredAndSortedBom corresponds to its
\* current arguments: after any change of the item collection, the search
\* term, the kanban filter, the sort field or the sort direction, the
\* returned list is a filter-then-sort of the current collection under the
\* current parameters.
C30_ViewFollowsArguments ==
    (~loading /\ inflight = {} /\ feed = <<>>) =>
        filteredAndSortedBomItems
            \in SortOutcomes(FilterBom(bomItems, searchTerm, kanbanFilter, "all"),
                             sortField, sortDirection)

=============================================================================
